---- MODULE Spec2Model ----
(***************************************************************************)
(* covia-pm: the integration dispatcher (PMVenueClient.executeActions),    *)
(* the health monitor (useHealthChecks), pingServer, and the asset         *)
(* registry resolver (PMVenueClient.connect, ensureAssets,                 *)
(* buildAssetIdMap, disconnect), as state machines.                        *)
(*                                                                         *)
(* JavaScript runs one task at a time: an action of this module is one     *)
(* synchronous run of code, from the event that starts it to the next      *)
(* await (or to the end of the callback).                                  *)
(***************************************************************************)
EXTENDS Integers, Sequences, FiniteSets, Bags, TLC

\* ------------------------------------------------------------------ bounds

\* At most this many of the probe integrations differ from the defaults in
\* one input (server field set, asset missing from the map, items in the batch).
MaxFocus == 3
\* The longest batch of action items.
MaxItems == 2
\* The number of server fields the settings of the health monitor differ in.
MaxKeys == 2
\* The number of different URLs entered for one server field.
MaxUrls == 2
\* The most pingServer calls in flight at once.
MaxInFlight == 2
\* The most recheck() calls in one run.
MaxRechecks == 1
\* The number of operation definitions of pmAssets the loop goes through.
MaxAssets == 2

\* ------------------------------------------------------------ JS values

\* The value `undefined` (a missing argument, a Map miss, a missing field).
Undefined == "<undefined>"

\* JavaScript truthiness of a string-or-undefined value, as `a && b` reads it.
Truthy(v) == v # Undefined /\ v # ""

\* ------------------------------------------------------------- registry

\* CATEGORIES: category id -> group.
CATEGORIES ==
  [c \in {"issue-trackers", "vcs", "communication", "incident", "observability",
          "documentation", "calendar", "meeting-tools"} |->
     IF c = "meeting-tools" THEN "intelligence" ELSE "execution"]

Integration(id, category, serverKey) ==
  [id |-> id, category |-> category, serverKey |-> serverKey, hidden |-> FALSE]

\* INTEGRATIONS, in the order of the array. No entry sets `hidden`.
INTEGRATIONS ==
  << Integration("jira",          "issue-trackers", "jiraServer"),
     Integration("linear",        "issue-trackers", "linearServer"),
     Integration("azure-devops",  "issue-trackers", "azureServer"),
     Integration("github",        "vcs",            "githubServer"),
     Integration("gitlab",        "vcs",            "gitlabServer"),
     Integration("slack",         "communication",  "slackServer"),
     Integration("teams",         "communication",  "teamsServer"),
     Integration("email",         "communication",  "emailServer"),
     Integration("pagerduty",     "incident",       "pagerdutyServer"),
     Integration("sentry",        "observability",  "sentryServer"),
     Integration("confluence",    "documentation",  "confluenceServer"),
     Integration("calendar",      "calendar",       "calendarServer"),
     Integration("granola",       "meeting-tools",  "granolaServer"),
     Integration("fathom",        "meeting-tools",  "fathomServer"),
     Integration("fireflies",     "meeting-tools",  "firefliesServer"),
     Integration("otter",         "meeting-tools",  "otterServer"),
     Integration("tldv",          "meeting-tools",  "tldvServer"),
     Integration("avoma",         "meeting-tools",  "avomaServer"),
     Integration("read",          "meeting-tools",  "readServer"),
     Integration("zoom",          "meeting-tools",  "zoomServer"),
     Integration("teams-meeting", "meeting-tools",  "teamsMeetingServer") >>

IntegrationIds == {INTEGRATIONS[k].id : k \in DOMAIN INTEGRATIONS}
ServerKeys == {INTEGRATIONS[k].serverKey : k \in DOMAIN INTEGRATIONS}

\* The descriptors whose category belongs to the 'execution' group.
ExecutionIds ==
  {INTEGRATIONS[k].id : k \in {j \in DOMAIN INTEGRATIONS :
                                  CATEGORIES[INTEGRATIONS[j].category] = "execution"}}

\* ActionTarget: the targets an action item may name.
ActionTarget ==
  {"jira", "linear", "azure-devops", "github", "gitlab", "slack", "teams",
   "email", "pagerduty", "sentry", "confluence", "calendar"}

\* The dispatch calls of executeActions, in program order:
\* dispatch(target, assetName, serverField, input).
DispatchCall(target, assetName, serverField) ==
  [target |-> target, assetName |-> assetName, serverField |-> serverField]

DispatchesGithubBeforeAzure ==
  << DispatchCall("jira",         "pm:executeJiraActions",        "jiraServer"),
     DispatchCall("linear",       "pm:executeLinearActions",      "linearServer"),
     DispatchCall("github",       "pm:executeGithubActions",      "githubServer"),
     DispatchCall("azure-devops", "pm:executeAzureDevOpsActions", "azureServer"),
     DispatchCall("gitlab",       "pm:executeGitLabActions",      "gitlabServer"),
     DispatchCall("slack",        "pm:sendNotifications",         "slackServer"),
     DispatchCall("teams",        "pm:sendTeamsNotifications",    "teamsServer"),
     DispatchCall("email",        "pm:sendEmailNotifications",    "emailServer"),
     DispatchCall("pagerduty",    "pm:createPagerDutyIncidents",  "pagerdutyServer"),
     DispatchCall("sentry",       "pm:linkSentryIssues",          "sentryServer"),
     DispatchCall("confluence",   "pm:writeConfluencePages",      "confluenceServer"),
     DispatchCall("calendar",     "pm:scheduleCalendarEvents",    "calendarServer") >>

DISPATCHES ==
  << DispatchCall("jira",         "pm:executeJiraActions",        "jiraServer"),
     DispatchCall("linear",       "pm:executeLinearActions",      "linearServer"),
     DispatchCall("azure-devops", "pm:executeAzureDevOpsActions", "azureServer"),
     DispatchCall("github",       "pm:executeGithubActions",      "githubServer"),
     DispatchCall("gitlab",       "pm:executeGitLabActions",      "gitlabServer"),
     DispatchCall("slack",        "pm:sendNotifications",         "slackServer"),
     DispatchCall("teams",        "pm:sendTeamsNotifications",    "teamsServer"),
     DispatchCall("email",        "pm:sendEmailNotifications",    "emailServer"),
     DispatchCall("pagerduty",    "pm:createPagerDutyIncidents",  "pagerdutyServer"),
     DispatchCall("sentry",       "pm:linkSentryIssues",          "sentryServer"),
     DispatchCall("confluence",   "pm:writeConfluencePages",      "confluenceServer"),
     DispatchCall("calendar",     "pm:scheduleCalendarEvents",    "calendarServer") >>

NumDispatches == Len(DISPATCHES)

\* ---------------------------------------------------------------- state

VARIABLES
  venue,          \* PMVenueClient.venue: Null, or the connected venue's id
  assetIdMap,     \* PMVenueClient.assetIdMap: operation name -> asset id
  settings,       \* the PMSettings snapshot: server field -> string
  actionItems,    \* analysisResult.actionItems, the batch
  pc,             \* where the executeActions call stands
  idx,            \* the dispatch call executeActions is at (1..NumDispatches)
  events,         \* what executeActions did so far, in order: the onStepUpdate
                  \* calls, the venue.run calls and their settling
  runsInFlight,   \* venue.run calls issued and not yet settled
  rejection,      \* the error executeActions rejected with, or Undefined
  isConnected,    \* useHealthChecks: the isConnected argument of the last render
  health,         \* useHealthChecks: the health state, server key -> status
  effectTimer,    \* Effect 1's pending setTimeout(..., 0), with what it will run
  debounceRef,    \* Effect 2's pending setTimeout(..., 500), with what it will run
  pings,          \* the pingServer calls in flight, a bag of (serverKey, url)
  clearedEntries, \* whether the last setHealth({}) of Effect 1 replaced a map with entries
  unsettled,      \* whether settings changed while connected and the 500 ms
                  \* settle delay of the last change has not yet elapsed
  rechecks,       \* the number of recheck() calls so far
  cancelled,      \* whether the render in which isConnected last turned
                  \* false found a round scheduled and not yet started
  assetsDeployed, \* PMVenueClient.assetsDeployed
  calls,          \* the connect() calls on the client: where each one stands
  held,           \* for each venue, the names of the assets it holds
  passes,         \* deployment passes started since the last disconnect()
  ping,           \* the pingServer call: its arguments, its AbortController,
                  \* its timer, the fetch it awaits and what it returned
  now,            \* the time in ms since pingServer was called
  op,             \* the call of analyzeMeeting, fetchTranscript,
                  \* executeFullWorkflow or getDeployedAssets: its remote
                  \* calls and how it ended
  hook,           \* useVenue: status, error and venueId, and where each
                  \* call of its connect stands
  app             \* App: analysisResult (present or null), executionState,
                  \* showExecution, and the handleExecute call: where it
                  \* stands, its hasError, and how many of the state updates
                  \* it queued React has applied

execVars == <<venue, assetIdMap, actionItems, pc, idx, events, runsInFlight,
              rejection>>

healthVars == <<isConnected, health, effectTimer, debounceRef, pings,
                clearedEntries, unsettled, rechecks, cancelled>>

connectVars == <<assetsDeployed, calls, held, passes>>

pingVars == <<ping, now>>

\* The state of what sits on top of the client: its other operations, the
\* useVenue hook and the App component.
uiVars == <<op, hook, app>>

vars == <<settings, execVars, healthVars, connectVars, pingVars, uiVars>>

Null == "<null>"

\* The connect() calls made on one client.
Calls == {"connect-1", "connect-2"}

\* The venues Grid.connect may resolve with, one per venue URL; and the
\* venue every call is made for where one venue is enough.
Venues == {"venue-1", "venue-2"}
OneVenue == {"venue-1"}

\* No venue holds an asset.
NoAssets == [v \in Venues |-> {}]

\* A connect() call not made yet.
IdleCall ==
  [pc       |-> "idle",  \* idle, connecting, creating, listing, returned, rejected
   url      |-> Null,    \* the venue its venueUrl argument names
   i        |-> 0,       \* the definition whose createAsset is awaited
   on       |-> Null,    \* the venue the awaited createAsset or getAssets
                         \* call was made on (this.venue at that time)
   outcomes |-> << >>,   \* name -> how its createAsset call ended
   warned   |-> {},      \* the names passed to console.warn
   listed   |-> "no",    \* getAssets: "no" (not settled), "ok", "failed"
   clean    |-> TRUE,    \* no disconnect() since the call set this.venue
   ret      |-> Null,    \* what connect() resolved with
   map      |-> << >>,   \* the asset map when connect() resolved
   second   |-> FALSE]   \* called after a connect() that resolved and a
                         \* disconnect() that followed it

\* No operation of the client called yet.
IdleOp == [name |-> "none", pc |-> "idle", remote |-> << >>,
           settled |-> << >>]

\* pingServer's timeoutMs = 5000.
DefaultTimeoutMs == 5000

\* pingServer not called yet.
IdlePing == [pc |-> "idle", url |-> "", timeoutMs |-> 0, timerPending |-> FALSE,
             aborted |-> FALSE, fetch |-> "none", status |-> 0, ret |-> FALSE,
             clearCalls |-> 0]   \* clearTimeout(id) calls made

\* ------------------------------------------------------ executeActions

\* Map.prototype.get: the value, or undefined.
MapGet(m, k) == IF k \in DOMAIN m THEN m[k] ELSE Undefined

\* settings[serverField], read as a plain record.
Field(s, k) == IF k \in DOMAIN s THEN s[k] ELSE Undefined

\* A grouping that keeps the first item of each target only.
byTargetFirstOnly(target) ==
  LET g == SelectSeq(actionItems, LAMBDA i : i.target = target)
  IN  IF Len(g) = 0 THEN g ELSE << g[1] >>

\* byTarget: analysisResult.actionItems.filter(i => i.target === target).
byTarget(target) == SelectSeq(actionItems, LAMBDA i : i.target = target)

EligibleIgnoringServer(server, items, assetId) ==
  Len(items) > 0 /\ Truthy(assetId)

EligibleIgnoringAsset(server, items, assetId) ==
  Truthy(server) /\ Len(items) > 0

\* The condition of dispatch: server && items.length > 0 && assetId.
\* A dispatch that leaves out a target whose server is known unreachable.
EligibleUnlessUnreachable(server, items, assetId) ==
  /\ Truthy(server) /\ Len(items) > 0 /\ Truthy(assetId)
  /\ ~\E k \in DOMAIN health : settings[k] = server /\ health[k] = "unreachable"

Eligible(server, items, assetId) ==
  Truthy(server) /\ Len(items) > 0 /\ Truthy(assetId)

\* A value a remote call may throw: an Error with a message, or any other
\* value (given by its String() form).
ErrorValue(message) == [isError |-> TRUE, message |-> message, string |-> "Error: " \o message]
OtherValue(string)  == [isError |-> FALSE, message |-> Undefined, string |-> string]

ErrorMessageStringified(e) == e.string

\* e instanceof Error ? e.message : String(e)
ErrorMessage(e) == IF e.isError THEN e.message ELSE e.string

\* One onStepUpdate(id, status, result, error) call.
StepUpdate(id, status, result, error) ==
  [kind |-> "update", id |-> id, status |-> status, result |-> result, error |-> error]

\* One this.venue.run(assetId, { actions: items, notes, ...input }) call.
RunCall(target, assetId, items, server) ==
  [kind |-> "run", id |-> target, assetId |-> assetId, actions |-> items,
   server |-> server]

\* The settling of the run call of `target`: resolved with a result, or
\* rejected with a thrown value.
Settled(target, resolved, value) ==
  [kind |-> "settled", id |-> target, resolved |-> resolved, value |-> value]

\* What `this.venue!.run` throws when venue is null.
NullVenueTypeError == ErrorValue("Cannot read properties of null (reading 'run')")

\* The position after dispatch call i has returned: executeActions resumes
\* from its `await dispatch(...)` in a later microtask.
AfterDispatch(i) == pc' = "dispatch" /\ idx' = i + 1

DispatchSilentSkip(i) ==
  LET d       == DISPATCHES[i]
      assetId == MapGet(assetIdMap, d.assetName)
      server  == Field(settings, d.serverField)
      items   == byTarget(d.target)
  IN  IF Eligible(server, items, assetId)
      THEN /\ events' = events \o
                  << StepUpdate(d.target, "running", Undefined, Undefined),
                     RunCall(d.target, assetId, items, server) >>
           /\ runsInFlight' = runsInFlight + 1
           /\ pc' = "awaiting"
           /\ idx' = i
      ELSE /\ AfterDispatch(i)
           /\ UNCHANGED <<events, runsInFlight>>

DispatchRunningAfterCall(i) ==
  LET d       == DISPATCHES[i]
      assetId == MapGet(assetIdMap, d.assetName)
      server  == Field(settings, d.serverField)
      items   == byTarget(d.target)
  IN  IF Eligible(server, items, assetId)
      THEN /\ events' = events \o
                  << RunCall(d.target, assetId, items, server),
                     StepUpdate(d.target, "running", Undefined, Undefined) >>
           /\ runsInFlight' = runsInFlight + 1
           /\ pc' = "awaiting"
           /\ idx' = i
      ELSE /\ events' = Append(events,
                          StepUpdate(d.target, "skipped", Undefined, Undefined))
           /\ AfterDispatch(i)
           /\ UNCHANGED runsInFlight

\* dispatch(target, assetName, serverField, input), up to its first await
\* (or to its end when it does not await).
Dispatch(i) ==
  LET d       == DISPATCHES[i]
      assetId == MapGet(assetIdMap, d.assetName)
      server  == Field(settings, d.serverField)
      items   == byTarget(d.target)
  IN  IF Eligible(server, items, assetId)
      THEN IF venue # Null
           THEN /\ events' = events \o
                       << StepUpdate(d.target, "running", Undefined, Undefined),
                          RunCall(d.target, assetId, items, server) >>
                /\ runsInFlight' = runsInFlight + 1
                /\ pc' = "awaiting"
                /\ idx' = i
           ELSE \* `this.venue!.run` throws inside the try block
                /\ events' = events \o
                       << StepUpdate(d.target, "running", Undefined, Undefined),
                          StepUpdate(d.target, "error", Undefined,
                                     ErrorMessage(NullVenueTypeError)) >>
                /\ AfterDispatch(i)
                /\ UNCHANGED runsInFlight
      ELSE /\ events' = Append(events,
                          StepUpdate(d.target, "skipped", Undefined, Undefined))
           /\ AfterDispatch(i)
           /\ UNCHANGED runsInFlight

ExecuteActionsUnchecked ==
  /\ pc = "idle"
  /\ Dispatch(1)
  /\ UNCHANGED <<venue, assetIdMap, settings, actionItems, rejection>>
  /\ UNCHANGED <<healthVars, connectVars, pingVars, uiVars>>

\* The call of executeActions: the connection check, then the first dispatch.
ExecuteActions ==
  /\ pc = "idle"
  /\ IF venue = Null
     THEN /\ pc' = "rejected"
          /\ rejection' = "Not connected to venue"
          /\ UNCHANGED <<idx, events, runsInFlight>>
     ELSE /\ Dispatch(1)
          /\ UNCHANGED rejection
  /\ UNCHANGED <<venue, assetIdMap, settings, actionItems>>
  /\ UNCHANGED <<healthVars, connectVars, pingVars, uiVars>>

\* executeActions resumes after `await dispatch(...)`: the next dispatch call,
\* or the end of the function after the last one.
Continue ==
  /\ pc = "dispatch"
  /\ IF idx > NumDispatches
     THEN /\ pc' = "resolved"
          /\ UNCHANGED <<idx, events, runsInFlight>>
     ELSE Dispatch(idx)
  /\ UNCHANGED <<venue, assetIdMap, settings, actionItems, rejection>>
  /\ UNCHANGED <<healthVars, connectVars, pingVars, uiVars>>

\* What the substrate may answer, and what a failing call may throw.
Results == {"result-1"}
Thrown  == {ErrorValue("Jira API error"), OtherValue("503")}

\* The awaited venue.run resolves: onStepUpdate(target, 'success', result).
RunResolves(result) ==
  /\ pc = "awaiting"
  /\ events' = events \o
        << Settled(DISPATCHES[idx].target, TRUE, result),
           StepUpdate(DISPATCHES[idx].target, "success", result, Undefined) >>
  /\ runsInFlight' = runsInFlight - 1
  /\ AfterDispatch(idx)
  /\ UNCHANGED <<venue, assetIdMap, settings, actionItems, rejection>>
  /\ UNCHANGED <<healthVars, connectVars, pingVars, uiVars>>

RunRejectsPropagates(e) ==
  /\ pc = "awaiting"
  /\ events' = Append(events, Settled(DISPATCHES[idx].target, FALSE, e))
  /\ runsInFlight' = runsInFlight - 1
  /\ pc' = "rejected"
  /\ rejection' = ErrorMessage(e)
  /\ UNCHANGED <<venue, assetIdMap, settings, actionItems, idx>>
  /\ UNCHANGED <<healthVars, connectVars, pingVars, uiVars>>

\* The awaited venue.run rejects: the catch block's onStepUpdate(target, 'error').
RunRejects(e) ==
  /\ pc = "awaiting"
  /\ events' = events \o
        << Settled(DISPATCHES[idx].target, FALSE, e),
           StepUpdate(DISPATCHES[idx].target, "error", Undefined, ErrorMessage(e)) >>
  /\ runsInFlight' = runsInFlight - 1
  /\ AfterDispatch(idx)
  /\ UNCHANGED <<venue, assetIdMap, settings, actionItems, rejection>>
  /\ UNCHANGED <<healthVars, connectVars, pingVars, uiVars>>

\* ----------------------------------------------------------- pingServer

\* The URLs pinged and the timeoutMs arguments passed (none: the default).
PingUrls == {"http://example.com", "http://mcp-server.example.com"}
TimeoutArgs == {<< >>, <<100>>, <<3000>>}
TimeoutMs(args) == IF Len(args) = 0 THEN DefaultTimeoutMs ELSE args[1]

\* The HTTP statuses a response carries (opaque under mode 'no-cors').
Statuses == {200, 405, 500}

\* The instants the clock is looked at: each timeout and the ms before it.
Instants == UNION {{TimeoutMs(a) - 1, TimeoutMs(a)} : a \in TimeoutArgs}

\* pingServer(url, ...args) up to its await: the controller, the timer that
\* will abort it, and the fetch call.
PingServer(url, args) ==
  /\ ping.pc = "idle"
  /\ now = 0
  /\ ping' = [pc |-> "awaiting", url |-> url, timeoutMs |-> TimeoutMs(args),
              timerPending |-> TRUE, aborted |-> FALSE, fetch |-> "pending",
              status |-> 0, ret |-> FALSE, clearCalls |-> 0]
  /\ UNCHANGED <<now, settings, execVars, healthVars, connectVars, uiVars>>

\* Time passes.
Advance(t) ==
  /\ ping.pc = "awaiting"
  /\ t > now
  /\ now' = t
  /\ UNCHANGED <<ping, settings, execVars, healthVars, connectVars, uiVars>>

\* A fetch that resolves makes pingServer return response.ok.
FetchRespondsOkOnly(status) ==
  /\ ping.pc = "awaiting" /\ ping.fetch = "pending" /\ ~ping.aborted
  /\ ping' = [ping EXCEPT !.pc = "returned", !.fetch = "response",
                          !.status = status, !.ret = (status \in 200..299),
                          !.timerPending = FALSE,
                          !.clearCalls = @ + 1]
  /\ UNCHANGED <<now, settings, execVars, healthVars, connectVars, uiVars>>

\* fetch resolves with a response of any status: return true, and the
\* finally block clears the timer.
FetchResponds(status) ==
  /\ ping.pc = "awaiting" /\ ping.fetch = "pending" /\ ~ping.aborted
  /\ ping' = [ping EXCEPT !.pc = "returned", !.fetch = "response",
                          !.status = status, !.ret = TRUE,
                          !.timerPending = FALSE,
                          !.clearCalls = @ + 1]
  /\ UNCHANGED <<now, settings, execVars, healthVars, connectVars, uiVars>>

\* A catch block that returns false with no finally block behind it.
FetchFailsLeavesTimer ==
  /\ ping.pc = "awaiting" /\ ping.fetch = "pending" /\ ~ping.aborted
  /\ ping' = [ping EXCEPT !.pc = "returned", !.fetch = "network-error",
                          !.ret = FALSE]
  /\ UNCHANGED <<now, settings, execVars, healthVars, connectVars, uiVars>>

\* fetch rejects with a TypeError (DNS error, refused connection): the catch
\* block returns false, and the finally block clears the timer.
FetchFails ==
  /\ ping.pc = "awaiting" /\ ping.fetch = "pending" /\ ~ping.aborted
  /\ ping' = [ping EXCEPT !.pc = "returned", !.fetch = "network-error",
                          !.ret = FALSE, !.timerPending = FALSE,
                          !.clearCalls = @ + 1]
  /\ UNCHANGED <<now, settings, execVars, healthVars, connectVars, uiVars>>

\* The timer fires, not before timeoutMs has passed: controller.abort().
AbortTimerFires ==
  /\ ping.pc = "awaiting" /\ ping.timerPending
  /\ now >= ping.timeoutMs
  /\ ping' = [ping EXCEPT !.aborted = TRUE, !.timerPending = FALSE]
  /\ UNCHANGED <<now, settings, execVars, healthVars, connectVars, uiVars>>

\* The aborted fetch rejects with an AbortError: the catch block returns false.
FetchAborted ==
  /\ ping.pc = "awaiting" /\ ping.fetch = "pending" /\ ping.aborted
  /\ ping' = [ping EXCEPT !.pc = "returned", !.fetch = "abort-error",
                          !.ret = FALSE, !.timerPending = FALSE,
                          !.clearCalls = @ + 1]
  /\ UNCHANGED <<now, settings, execVars, healthVars, connectVars, uiVars>>

\* ------------------------------------------------------ useHealthChecks

\* The health map {}.
EmptyHealth == [k \in {} |-> Undefined]

\* The settings of a timer whose callback is not a runChecks: no field is set.
NoSettings == [k \in ServerKeys |-> Undefined]

\* No timer pending.
NoTimer == [kind |-> "none", settings |-> NoSettings]
\* A pending timer whose callback is () => setHealth({}).
ClearTimer == [kind |-> "clear", settings |-> NoSettings]
\* A pending timer whose callback is () => { void runChecks(); }, runChecks
\* being the callback of the render with settings s.
RunTimer(s) == [kind |-> "run", settings |-> s]

\* targets: INTEGRATIONS.filter(i => !i.hidden && !!settings[i.serverKey])
\*            .map(i => ({ serverKey: i.serverKey, url: settings[i.serverKey] }))
Targets(s) ==
  LET keep(i) == ~i.hidden /\ Truthy(Field(s, i.serverKey))
      kept    == SelectSeq(INTEGRATIONS, keep)
  IN  [n \in DOMAIN kept |->
         [serverKey |-> kept[n].serverKey, url |-> s[kept[n].serverKey]]]

\* A round that marks its first target only before it awaits.
MarkCheckingFirstOnly(prev, targets) ==
  [k \in DOMAIN prev \cup {targets[1].serverKey} |->
     IF k = targets[1].serverKey THEN "checking" ELSE prev[k]]

\* setHealth(prev => { ...prev, [each target's serverKey]: 'checking' })
MarkChecking(prev, targets) ==
  LET keys == {targets[n].serverKey : n \in DOMAIN targets}
  IN  [k \in DOMAIN prev \cup keys |-> IF k \in keys THEN "checking" ELSE prev[k]]

\* A settling probe that writes a map holding its own entry only.
SetEntryReplacesMap(prev, serverKey, reachable) ==
  [k \in {serverKey} |-> IF reachable THEN "ok" ELSE "unreachable"]

\* setHealth(prev => ({ ...prev, [serverKey]: reachable ? 'ok' : 'unreachable' }))
SetEntry(prev, serverKey, reachable) ==
  [k \in DOMAIN prev \cup {serverKey} |->
     IF k = serverKey THEN (IF reachable THEN "ok" ELSE "unreachable") ELSE prev[k]]

\* runChecks of the render with settings s, up to its await: the targets,
\* the one setHealth, and one pingServer call per target.
RunChecks(s) ==
  LET targets == Targets(s)
  IN  IF Len(targets) = 0
      THEN /\ health' = EmptyHealth
           /\ UNCHANGED pings
      ELSE /\ health' = MarkChecking(health, targets)
           /\ pings' = pings (+) SetToBag({targets[n] : n \in DOMAIN targets})

\* The round of the render with settings s fits the bound on calls in flight.
CanRun(s) == BagCardinality(pings) + Len(Targets(s)) <= MaxInFlight

\* Effect 1 after a render with (connected, s): the cleanup of the previous
\* run has cleared its timer; the new run schedules setHealth({}) or runChecks.
Effect1AlwaysRuns(connected, s) == RunTimer(s)

\* An Effect 1 that schedules no round.
Effect1ClearsOnly(connected, s) == ClearTimer

Effect1(connected, s) == IF connected THEN RunTimer(s) ELSE ClearTimer

\* An Effect 2 without its `if (!isConnected) return`.
Effect2AlwaysRuns(connected, s) == RunTimer(s)

\* Effect 2 after a render with (connected, s): the pending debounce timer is
\* cleared (by the cleanup and by the effect body); a new one is scheduled
\* only while connected.
Effect2(connected, s) == IF connected THEN RunTimer(s) ELSE NoTimer

\* A render with a new isConnected: both effects have it as a dependency.
SetConnected(connected) ==
  /\ connected # isConnected
  /\ isConnected' = connected
  /\ effectTimer' = Effect1(connected, settings)
  /\ debounceRef' = Effect2(connected, settings)
  /\ unsettled' = FALSE
  /\ cancelled' = /\ ~connected
                  /\ (effectTimer.kind = "run" \/ debounceRef.kind = "run")
  /\ UNCHANGED <<settings, health, pings, clearedEntries, rechecks, execVars,
                 connectVars, pingVars, uiVars>>

\* A render with a new settings object (useSettings.saveSettings): runChecks
\* gets a new identity, so both effects run again.
SaveSettings(s) ==
  /\ settings' = s
  /\ effectTimer' = Effect1(isConnected, s)
  /\ debounceRef' = Effect2(isConnected, s)
  /\ unsettled' = isConnected
  /\ UNCHANGED <<isConnected, health, pings, clearedEntries, rechecks, cancelled,
                 execVars,
                 connectVars, pingVars, uiVars>>

\* Effect 1's timer fires: setHealth({}) or runChecks().
EffectTimerFires ==
  /\ effectTimer.kind # "none"
  /\ effectTimer' = NoTimer
  /\ IF effectTimer.kind = "clear"
     THEN /\ health' = EmptyHealth
          /\ clearedEntries' = (DOMAIN health # {})
          /\ UNCHANGED pings
     ELSE /\ CanRun(effectTimer.settings)
          /\ RunChecks(effectTimer.settings)
          /\ UNCHANGED clearedEntries
  /\ UNCHANGED <<settings, isConnected, debounceRef, unsettled, rechecks, cancelled,
                 execVars,
                 connectVars, pingVars, uiVars>>

\* Effect 2's timer fires, 500 ms after it was set. The effects run together,
\* so a pending Effect 1 timer was set at the same moment with delay 0 and
\* fires first.
DebounceFires ==
  /\ debounceRef.kind = "run"
  /\ effectTimer.kind = "none"
  /\ CanRun(debounceRef.settings)
  /\ debounceRef' = NoTimer
  /\ RunChecks(debounceRef.settings)
  /\ unsettled' = FALSE
  /\ UNCHANGED <<settings, isConnected, effectTimer, clearedEntries, rechecks,
                 cancelled, execVars,
                 connectVars, pingVars, uiVars>>

\* A recheck() that runs the round whatever isConnected is.
RecheckUnguarded ==
  /\ rechecks < MaxRechecks
  /\ rechecks' = rechecks + 1
  /\ CanRun(settings)
  /\ RunChecks(settings)
  /\ UNCHANGED <<settings, isConnected, effectTimer, debounceRef, clearedEntries,
                 unsettled, cancelled, execVars,
                 connectVars, pingVars, uiVars>>

\* recheck() of the last render: if (isConnected) void runChecks().
Recheck ==
  /\ rechecks < MaxRechecks
  /\ rechecks' = rechecks + 1
  /\ IF isConnected
     THEN /\ CanRun(settings)
          /\ RunChecks(settings)
     ELSE UNCHANGED <<health, pings>>
  /\ UNCHANGED <<settings, isConnected, effectTimer, debounceRef, clearedEntries,
                 unsettled, cancelled, execVars,
                 connectVars, pingVars, uiVars>>

\* A pingServer call that settles without its continuation's setHealth.
PingSettlesKeepsEntry(p, reachable) ==
  /\ BagIn(p, pings)
  /\ pings' = pings (-) SetToBag({p})
  /\ UNCHANGED <<settings, isConnected, health, effectTimer, debounceRef,
                 clearedEntries, unsettled, rechecks, cancelled, execVars,
                 connectVars, pingVars, uiVars>>

\* A pingServer call settles (it resolves to a boolean, it never rejects)
\* and its continuation sets the entry.
PingSettles(p, reachable) ==
  /\ BagIn(p, pings)
  /\ pings' = pings (-) SetToBag({p})
  /\ health' = SetEntry(health, p.serverKey, reachable)
  /\ UNCHANGED <<settings, isConnected, effectTimer, debounceRef,
                 clearedEntries, unsettled, rechecks, cancelled, execVars,
                 connectVars, pingVars, uiVars>>

\* The hook is not mounted.
HealthUnmounted ==
  /\ isConnected = FALSE
  /\ health = EmptyHealth
  /\ effectTimer = NoTimer
  /\ debounceRef = NoTimer
  /\ pings = EmptyBag
  /\ clearedEntries = FALSE
  /\ unsettled = FALSE
  /\ rechecks = 0
  /\ cancelled = FALSE

\* No connect() call was made and the venue holds nothing.
ConnectUnused ==
  /\ calls = [c \in Calls |-> IdleCall]
  /\ held = NoAssets
  /\ passes = 0

\* No pingServer call was made.
PingUnused ==
  /\ ping = IdlePing
  /\ now = 0

\* useState<ExecutionState>({ status: 'idle', steps: [] })
IdleExecutionState == [status |-> "idle", steps |-> << >>]

\* App as mounted, with or without an analysis result.
IdleApp(analysed) ==
  [analysisResult |-> analysed,
   executionState |-> IdleExecutionState,
   showExecution  |-> FALSE,
   pc             |-> "idle",   \* idle, calling (executeActions), finished
   hasError       |-> FALSE,
   applied        |-> 0,
   again          |-> FALSE]    \* an earlier handleExecute call has finished

\* useVenue as mounted: useState('disconnected'), useState(null) twice, and
\* no connect call made. error is << >> for null, or <<e>>.
IdleHook ==
  [status  |-> "disconnected",
   error   |-> << >>,
   venueId |-> Null,
   calls   |-> [c \in Calls |-> "idle"]]   \* idle, awaiting, resolved, rejected

\* None of the other operations of the client was called, useVenue was not
\* used, and App did not execute anything.
UiUnused == op = IdleOp /\ hook = IdleHook /\ app = IdleApp(FALSE)

\* No executeActions call, on a client that was never connected.
ExecIdle ==
  /\ venue = Null
  /\ assetIdMap = [n \in {} |-> Undefined]
  /\ actionItems = << >>
  /\ pc = "idle"
  /\ idx = 0
  /\ events = << >>
  /\ runsInFlight = 0
  /\ rejection = Undefined
  /\ assetsDeployed = FALSE
  /\ ConnectUnused
  /\ PingUnused
  /\ UiUnused

\* The server fields the settings of the health monitor differ in.
EditedKeys == {INTEGRATIONS[k].serverKey : k \in 1..MaxKeys}

\* The URLs entered for server field k: the first field takes MaxUrls
\* different URLs, every other field one.
UrlsOf(k) ==
  {"http://" \o k \o "/" \o ToString(v) :
     v \in 1..(IF k = INTEGRATIONS[1].serverKey THEN MaxUrls ELSE 1)}

SettingsChoices ==
  {[k \in ServerKeys |-> IF k \in EditedKeys THEN e[k] ELSE ""] :
     e \in {f \in [EditedKeys -> {""} \cup UNION {UrlsOf(k) : k \in EditedKeys}] :
              \A k \in EditedKeys : f[k] = "" \/ f[k] \in UrlsOf(k)}}

\* The hook after its first render and effects, with either isConnected.
InitHealth ==
  /\ settings \in SettingsChoices
  /\ isConnected \in BOOLEAN
  /\ health = EmptyHealth
  /\ effectTimer = Effect1(isConnected, settings)
  /\ debounceRef = Effect2(isConnected, settings)
  /\ pings = EmptyBag
  /\ clearedEntries = FALSE
  /\ unsettled = FALSE
  /\ rechecks = 0
  /\ cancelled = FALSE
  /\ ExecIdle

NextHealth ==
  \/ \E c \in BOOLEAN : SetConnected(c)
  \/ \E s \in SettingsChoices : SaveSettings(s)
  \/ EffectTimerFires
  \/ DebounceFires
  \/ Recheck
  \/ \E p \in BagToSet(pings) : \E reachable \in BOOLEAN : PingSettles(p, reachable)

SpecHealth == InitHealth /\ [][NextHealth]_vars

\* Every (serverKey, url) pair a round can probe.
AllProbes == UNION {{Targets(s)[n] : n \in DOMAIN Targets(s)} : s \in SettingsChoices}

\* The health monitor with requests that settle: pingServer resolves once
\* its fetch responds, fails or is aborted at the timeout, so the
\* continuation of a probe in flight is not postponed forever.
SpecHealthLive ==
  /\ InitHealth
  /\ [][NextHealth]_vars
  /\ \A p \in AllProbes : WF_pings(\E reachable \in BOOLEAN : PingSettles(p, reachable))

\* pingServer before it is called, nothing else in use.
InitPing ==
  /\ settings = [k \in ServerKeys |-> ""]
  /\ HealthUnmounted
  /\ ExecIdle

NextPing ==
  \/ \E url \in PingUrls, args \in TimeoutArgs : PingServer(url, args)
  \/ \E t \in Instants : Advance(t)
  \/ \E status \in Statuses : FetchResponds(status)
  \/ FetchFails
  \/ AbortTimerFires
  \/ FetchAborted

SpecPing == InitPing /\ [][NextPing]_vars

\* ------------------------------------------------ inputs of the dispatcher

\* The identifier the venue reports for an operation.
AssetIdOf(name) == "asset:" \o name

\* The identifier venue v reports for the asset named name: each venue
\* reports identifiers of its own.
AssetIdAt(v, name) ==
  IF v = "venue-1" THEN AssetIdOf(name) ELSE AssetIdOf(name) \o "@" \o v

TargetOf(F) == {DISPATCHES[k].target : k \in F}

\* The dispatch calls whose inputs may all differ from the defaults at once:
\* the first call, its neighbour, one in the middle and the last one.
ProbeCalls == {k \in DOMAIN DISPATCHES :
                 DISPATCHES[k].target \in {"jira", "linear", "slack", "calendar"}}

\* The dispatch calls one input is about: F. The server field is set for the
\* calls S of F, the asset is missing from the map for the calls M of S, and
\* the batch names targets of F. F is any one or two of the dispatch calls,
\* or up to MaxFocus of the probe calls.
FocusSets ==
  {{}} \cup {{i, j} : i \in DOMAIN DISPATCHES, j \in DOMAIN DISPATCHES}
       \cup {F \in SUBSET ProbeCalls : Cardinality(F) <= MaxFocus}

\* The batches over the targets T: every sequence of at most MaxItems items.
Batches(T) ==
  UNION {{[k \in 1..n |-> [description |-> k, target |-> f[k]]] : f \in [1..n -> T]} :
           n \in 0..MaxItems}

ServerUrl(k) == "http://" \o k

InitExec ==
  \E F \in FocusSets, connected \in BOOLEAN :
    \E S \in SUBSET F : \E M \in SUBSET S :
      /\ venue = IF connected THEN "venue-1" ELSE Null
      /\ assetIdMap =
           IF connected
           THEN [n \in {DISPATCHES[k].assetName : k \in DOMAIN DISPATCHES \ M}
                   |-> AssetIdOf(n)]
           ELSE [n \in {} |-> Undefined]
      /\ settings = [k \in ServerKeys |->
                       IF k \in {DISPATCHES[j].serverField : j \in S}
                       THEN ServerUrl(k) ELSE ""]
      /\ actionItems \in Batches(TargetOf(F))
      /\ pc = "idle"
      /\ idx = 0
      /\ events = << >>
      /\ runsInFlight = 0
      /\ rejection = Undefined
      /\ HealthUnmounted
      /\ assetsDeployed = connected
      /\ ConnectUnused
      /\ PingUnused
      /\ UiUnused

NextExec ==
  \/ ExecuteActions
  \/ Continue
  \/ \E r \in Results : RunResolves(r)
  \/ \E e \in Thrown : RunRejects(e)

SpecExec == InitExec /\ [][NextExec]_vars

\* ------------------------------------------------- App.handleExecute

\* STEP_DEFS: the step rows, by id and server field.
StepDef(id, serverField) == [id |-> id, serverField |-> serverField]
STEP_DEFS ==
  << StepDef("jira",         "jiraServer"),
     StepDef("linear",       "linearServer"),
     StepDef("azure-devops", "azureServer"),
     StepDef("github",       "githubServer"),
     StepDef("gitlab",       "gitlabServer"),
     StepDef("slack",        "slackServer"),
     StepDef("teams",        "teamsServer"),
     StepDef("email",        "emailServer"),
     StepDef("pagerduty",    "pagerdutyServer"),
     StepDef("sentry",       "sentryServer"),
     StepDef("confluence",   "confluenceServer"),
     StepDef("calendar",     "calendarServer") >>

\* One row of executionState.steps.
Step(id, status, result, error) ==
  [id |-> id, status |-> status, result |-> result, error |-> error]

\* buildExecutionSteps(settings)
buildExecutionSteps(s) ==
  LET configured(d) == Truthy(Field(s, d.serverField))
      rows == SelectSeq(STEP_DEFS, configured)
  IN  [k \in DOMAIN rows |-> Step(rows[k].id, "pending", Undefined, Undefined)]

\* The state updates handleExecute has queued so far, in order: the
\* setExecutionState({ status: 'running', steps }) of its start, one updater
\* per onStepUpdate call of executeActions, and the updater of its end.
QueuedUpdates ==
  LET isUpdate(ev) == ev.kind = "update"
  IN  (IF app.pc = "idle" THEN << >>
       ELSE <<[kind |-> "set", id |-> "", status |-> "running",
               result |-> Undefined, error |-> Undefined]>>)
      \o SelectSeq(events, isUpdate)
      \o (IF app.pc = "finished"
          THEN <<[kind |-> "final", id |-> "", status |-> "",
                  result |-> Undefined, error |-> Undefined]>>
          ELSE << >>)

\* An updater of a step that does not record the failure.
StepUpdaterForgetsError(a, u) ==
  [a EXCEPT !.executionState.steps =
     [k \in DOMAIN a.executionState.steps |->
        IF a.executionState.steps[k].id = u.id
        THEN Step(u.id, u.status, u.result, u.error)
        ELSE a.executionState.steps[k]]]

\* The updater of one onStepUpdate(id, stepStatus, result, errorMsg) call,
\* run by React: the row of that id is replaced, and hasError is set when
\* the status is 'error'.
StepUpdater(a, u) ==
  [a EXCEPT !.executionState.steps =
              [k \in DOMAIN a.executionState.steps |->
                 IF a.executionState.steps[k].id = u.id
                 THEN Step(u.id, u.status, u.result, u.error)
                 ELSE a.executionState.steps[k]],
            !.hasError = a.hasError \/ u.status = "error"]

\* A start of execution that builds the rows only when there are none.
ApplyUpdateKeepsRows(a, u) ==
  CASE u.kind = "set" ->
         [a EXCEPT !.executionState =
            [status |-> "running",
             steps  |-> IF a.executionState.steps = << >>
                        THEN buildExecutionSteps(settings)
                        ELSE a.executionState.steps]]
    [] u.kind = "update" -> StepUpdater(a, u)
    [] u.kind = "final" ->
         [a EXCEPT !.executionState.status =
            IF a.hasError THEN "error" ELSE "complete"]

\* One queued update applied to the state of App.
ApplyUpdate(a, u) ==
  CASE u.kind = "set" ->
         [a EXCEPT !.executionState =
            [status |-> "running", steps |-> buildExecutionSteps(settings)]]
    [] u.kind = "update" -> StepUpdater(a, u)
    [] u.kind = "final" ->
         [a EXCEPT !.executionState.status =
            IF a.hasError THEN "error" ELSE "complete"]

RECURSIVE ApplyAll(_, _)
ApplyAll(a, us) ==
  IF us = << >> THEN a ELSE ApplyAll(ApplyUpdate(a, Head(us)), Tail(us))

appOtherVars == <<settings, execVars, healthVars, connectVars, pingVars, op, hook>>

\* const isExecuting = executionState.status === 'running'
IsExecuting == app.executionState.status = "running"

\* handleExecute up to its call of client.executeActions: nothing without
\* an analysis result. It is called from the Execute button, for the first
\* time or again once the execution before it is shown as ended (the button
\* is disabled while isExecuting); each call has its own hasError, queues
\* its own updates and makes its own executeActions call.
HandleExecute ==
  /\ \/ app.pc = "idle" /\ pc = "idle"
     \/ app.pc = "finished" /\ ~IsExecuting
  /\ IF ~app.analysisResult
     THEN UNCHANGED <<app, pc, idx, events, runsInFlight, rejection>>
     ELSE /\ app' = [app EXCEPT !.pc = "calling", !.showExecution = TRUE,
                                !.hasError = FALSE, !.applied = 0,
                                !.again = (app.pc = "finished")]
          /\ pc' = "idle"
          /\ idx' = 0
          /\ events' = << >>
          /\ runsInFlight' = 0
          /\ rejection' = Undefined
  /\ UNCHANGED <<venue, assetIdMap, settings, actionItems>>
  /\ UNCHANGED <<healthVars, connectVars, pingVars, op, hook>>

\* client.executeActions(lastNotes, analysisResult, settings, onStepUpdate),
\* called by handleExecute in the same run.
ClientExecuteActions ==
  /\ app.pc = "calling"
  /\ ExecuteActions

\* React renders App: the queued state updates are applied, in order.
Render ==
  /\ ~(app.pc = "calling" /\ pc = "idle")
  /\ app.applied < Len(QueuedUpdates)
  /\ app' = [ApplyAll(app, SubSeq(QueuedUpdates, app.applied + 1,
                                  Len(QueuedUpdates)))
               EXCEPT !.applied = Len(QueuedUpdates)]
  /\ UNCHANGED appOtherVars

\* handleExecute resumes after `await client.executeActions(...)`: the catch
\* block sets hasError when the call rejected, and the last updater is
\* queued.
HandleExecuteResumes ==
  /\ app.pc = "calling"
  /\ pc \in {"resolved", "rejected"}
  /\ app' = [app EXCEPT !.pc = "finished",
                        !.hasError = app.hasError \/ pc = "rejected"]
  /\ UNCHANGED appOtherVars

\* The Execute button of DelegationPlan is disabled while an execution is
\* running and when no server of a target is configured; the health map h
\* is shown as a warning only.
ExecuteEnabled(s, isExecuting, h) ==
  /\ ~isExecuting
  /\ \E k \in DOMAIN STEP_DEFS : Truthy(Field(s, STEP_DEFS[k].serverField))

\* The health maps of a monitor whose round has settled: an entry, 'ok' or
\* 'unreachable', for every checkable integration with a server; no entry
\* without a connection.
SettledHealth(connected, s) ==
  IF connected
  THEN [{Targets(s)[n].serverKey : n \in DOMAIN Targets(s)} -> {"ok", "unreachable"}]
  ELSE {EmptyHealth}

\* The dispatch calls App is run on: any one or two of the probe calls.
AppFocusSets == {{i, j} : i \in ProbeCalls, j \in ProbeCalls}

InitApp ==
  \E F \in AppFocusSets \cup {{}}, connected \in BOOLEAN, analysed \in BOOLEAN :
    \E S \in SUBSET F : \E M \in SUBSET S :
      /\ venue = IF connected THEN "venue-1" ELSE Null
      /\ assetIdMap =
           IF connected
           THEN [n \in {DISPATCHES[k].assetName : k \in DOMAIN DISPATCHES \ M}
                   |-> AssetIdOf(n)]
           ELSE [n \in {} |-> Undefined]
      /\ settings = [k \in ServerKeys |->
                       IF k \in {DISPATCHES[j].serverField : j \in S}
                       THEN ServerUrl(k) ELSE ""]
      /\ actionItems \in (IF analysed THEN Batches(TargetOf(F)) ELSE {<< >>})
      /\ pc = "idle"
      /\ idx = 0
      /\ events = << >>
      /\ runsInFlight = 0
      /\ rejection = Undefined
      /\ isConnected = connected
      /\ health \in SettledHealth(connected, settings)
      /\ effectTimer = NoTimer
      /\ debounceRef = NoTimer
      /\ pings = EmptyBag
      /\ clearedEntries = FALSE
      /\ unsettled = FALSE
      /\ rechecks = 0
      /\ cancelled = FALSE
      /\ assetsDeployed = connected
      /\ ConnectUnused
      /\ PingUnused
      /\ op = IdleOp
      /\ hook = IdleHook
      /\ app = IdleApp(analysed)

NextApp ==
  \/ HandleExecute
  \/ ClientExecuteActions
  \/ Continue
  \/ \E r \in Results : RunResolves(r)
  \/ \E e \in Thrown : RunRejects(e)
  \/ Render
  \/ HandleExecuteResumes

SpecApp == InitApp /\ [][NextApp]_vars

\* --------------------------------------------- connect and ensureAssets

\* pmAssets: the operation definitions, by the name each one carries.
pmAssets ==
  << [name |-> "pm:placeholder"],
     [name |-> "pm:analyzeMeeting"],
     [name |-> "pm:executeJiraActions"],
     [name |-> "pm:executeGithubActions"],
     [name |-> "pm:sendNotifications"],
     [name |-> "pm:fullWorkflow"] >>

\* The definitions the loop submits: the first MaxAssets of pmAssets, a
\* definition without a name being skipped.
PassAssets ==
  LET named(a) == Truthy(a.name)
  IN  SelectSeq(SubSeq(pmAssets, 1, MaxAssets), named)

PassNames == {PassAssets[k].name : k \in DOMAIN PassAssets}

\* An asset on the venue that is not one of this client's operations.
ForeignName == "tool:search"

\* s.includes(sub) and s.startsWith(prefix)
Includes(s, sub) ==
  \E k \in 1..(Len(s) - Len(sub) + 1) : SubSeq(s, k, k + Len(sub) - 1) = sub
StartsWith(s, prefix) ==
  Len(s) >= Len(prefix) /\ SubSeq(s, 1, Len(prefix)) = prefix

\* A check that knows the status code only.
IsConflictStatusOnly(errorMsg) == Includes(errorMsg, "409")

\* errorMsg.includes('409') || errorMsg.includes('already exists')
IsConflict(errorMsg) ==
  Includes(errorMsg, "409") \/ Includes(errorMsg, "already exists")

\* What createAsset rejects with.
CreateErrors ==
  {ErrorValue("409 Conflict"), ErrorValue("Asset already exists"),
   ErrorValue("500 Internal Server Error")}

\* What `this.venue.createAsset` throws when venue is null.
NullVenueCreateError ==
  ErrorValue("Cannot read properties of null (reading 'createAsset')")

\* How a createAsset call ended: resolved, or caught with errorMsg in one of
\* the two branches of the catch block.
Created == [kind |-> "created", errorMsg |-> ""]
Caught(e) ==
  [kind     |-> IF IsConflict(ErrorMessage(e)) THEN "conflict" ELSE "failed",
   errorMsg |-> ErrorMessage(e)]

\* outs with the outcome of the createAsset of `name` added.
WithOutcome(outs, name, outcome) ==
  [n \in DOMAIN outs \cup {name} |-> IF n = name THEN outcome ELSE outs[n]]

\* The names the catch block passes to console.warn.
Warned(outs) == {n \in DOMAIN outs : outs[n].kind = "failed"}

\* The names of the definitions from the k-th on.
RestNames(k) == {PassAssets[j].name : j \in k..Len(PassAssets)}

\* The loop from its k-th definition on, with this.venue = v and the
\* outcomes outs so far, up to its next await. With a venue, that is the
\* createAsset call of the k-th definition, or after the last definition
\* the getAssets call of buildAssetIdMap. With venue null, every remaining
\* `this.venue.createAsset` throws a TypeError into the catch block, the loop
\* runs to its end, buildAssetIdMap returns at once and connect resolves
\* with this.venue.
ContinuePass(c, k, v, outs) ==
  IF v # Null /\ k <= Len(PassAssets)
  THEN /\ calls' = [calls EXCEPT ![c].pc = "creating", ![c].i = k,
                                 ![c].on = v,
                                 ![c].outcomes = outs, ![c].warned = Warned(outs)]
       /\ UNCHANGED assetsDeployed
  ELSE /\ assetsDeployed' = TRUE
       /\ IF v = Null
          THEN LET all == [n \in DOMAIN outs \cup RestNames(k) |->
                            IF n \in RestNames(k) THEN Caught(NullVenueCreateError)
                            ELSE outs[n]]
               IN  calls' = [calls EXCEPT ![c].pc = "returned", ![c].i = 0,
                                         ![c].outcomes = all,
                                         ![c].warned = Warned(all),
                                         ![c].ret = Null,
                                         ![c].map = assetIdMap]
          ELSE calls' = [calls EXCEPT ![c].pc = "listing", ![c].i = 0,
                                     ![c].on = v,
                                     ![c].outcomes = outs,
                                     ![c].warned = Warned(outs)]

\* The variables of executeActions and of the other components that connect
\* and disconnect leave alone.
otherVars == <<settings, actionItems, pc, idx, events, runsInFlight, rejection,
               healthVars, pingVars, uiVars>>

\* The calls once call c has reached `await Grid.connect(venueUrl)`, url
\* being the venue that venueUrl names.
Connecting(c, url) ==
  [calls EXCEPT ![c].pc = "connecting",
                ![c].url = url,
                ![c].second = /\ venue = Null
                              /\ \E a \in Calls \ {c} :
                                   /\ calls[a].pc = "returned"
                                   /\ ~calls[a].clean]

\* connect(venueUrl) up to `await Grid.connect(venueUrl)`.
Connect(c, url) ==
  /\ calls[c].pc = "idle"
  /\ calls' = Connecting(c, url)
  /\ UNCHANGED <<venue, assetIdMap, assetsDeployed, held, passes, otherVars>>

\* Grid.connect rejects: connect rejects, this.venue is not assigned.
GridConnectRejects(c) ==
  /\ calls[c].pc = "connecting"
  /\ calls' = [calls EXCEPT ![c].pc = "rejected"]
  /\ UNCHANGED <<venue, assetIdMap, assetsDeployed, held, passes, otherVars>>

\* Grid.connect resolves: this.venue is assigned and ensureAssets runs up
\* to its first await, or returns at once when assetsDeployed is set (and
\* connect resolves with this.venue).
GridConnectResolves(c) ==
  /\ calls[c].pc = "connecting"
  /\ venue' = calls[c].url
  /\ IF assetsDeployed
     THEN /\ calls' = [calls EXCEPT ![c].pc = "returned", ![c].ret = calls[c].url,
                                    ![c].map = assetIdMap]
          /\ UNCHANGED <<assetsDeployed, passes>>
     ELSE /\ passes' = passes + 1
          /\ ContinuePass(c, 1, calls[c].url, << >>)
  /\ UNCHANGED <<assetIdMap, held, otherVars>>

\* The awaited createAsset resolves: the venue holds the asset, and the loop
\* goes on.
CreateAssetResolves(c) ==
  /\ calls[c].pc = "creating"
  /\ LET name == PassAssets[calls[c].i].name
     IN  /\ held' = [held EXCEPT ![calls[c].on] = @ \cup {name}]
         /\ ContinuePass(c, calls[c].i + 1, venue,
                         WithOutcome(calls[c].outcomes, name, Created))
  /\ UNCHANGED <<venue, assetIdMap, passes, otherVars>>

\* A loop whose catch block rethrows what is not a conflict.
CreateAssetRejectsAborts(c, e) ==
  /\ calls[c].pc = "creating"
  /\ LET name == PassAssets[calls[c].i].name
     IN  /\ IsConflict(ErrorMessage(e)) => name \in held[calls[c].on]
         /\ IF IsConflict(ErrorMessage(e))
            THEN ContinuePass(c, calls[c].i + 1, venue,
                              WithOutcome(calls[c].outcomes, name, Caught(e)))
            ELSE /\ calls' = [calls EXCEPT ![c].pc = "rejected",
                                ![c].outcomes = WithOutcome(calls[c].outcomes, name, Caught(e))]
                 /\ UNCHANGED assetsDeployed
  /\ UNCHANGED <<venue, assetIdMap, held, passes, otherVars>>

\* The awaited createAsset rejects with e (a conflict only for an asset the
\* venue holds): the catch block logs it, and the loop goes on.
CreateAssetRejects(c, e) ==
  /\ calls[c].pc = "creating"
  /\ LET name == PassAssets[calls[c].i].name
     IN  /\ IsConflict(ErrorMessage(e)) => name \in held[calls[c].on]
         /\ ContinuePass(c, calls[c].i + 1, venue,
                         WithOutcome(calls[c].outcomes, name, Caught(e)))
  /\ UNCHANGED <<venue, assetIdMap, held, passes, otherVars>>

\* assetIdMap after the loop over the listing `names` of venue v: an entry
\* is set for each name that starts with 'pm:', the other entries stay.
MapAfterListing(map, v, names) ==
  LET pm == {n \in names : StartsWith(n, "pm:")}
  IN  [n \in DOMAIN map \cup pm |-> IF n \in pm THEN AssetIdAt(v, n) ELSE map[n]]

\* The awaited getAssets resolves with the venue's assets: the map is filled,
\* buildAssetIdMap and ensureAssets return, connect resolves with this.venue.
GetAssetsResolves(c) ==
  /\ calls[c].pc = "listing"
  /\ assetIdMap' = MapAfterListing(assetIdMap, calls[c].on, held[calls[c].on])
  /\ calls' = [calls EXCEPT ![c].pc = "returned", ![c].listed = "ok",
                            ![c].ret = venue,
                            ![c].map = MapAfterListing(assetIdMap, calls[c].on, held[calls[c].on])]
  /\ UNCHANGED <<venue, assetsDeployed, held, passes, otherVars>>

\* The awaited getAssets rejects: the catch block warns, connect resolves.
GetAssetsRejects(c) ==
  /\ calls[c].pc = "listing"
  /\ calls' = [calls EXCEPT ![c].pc = "returned", ![c].listed = "failed",
                            ![c].ret = venue, ![c].map = assetIdMap]
  /\ UNCHANGED <<venue, assetIdMap, assetsDeployed, held, passes, otherVars>>

\* get isConnected(): this.venue !== null
ClientIsConnected == venue # Null

\* get venueId(): this.venue?.venueId ?? null
ClientVenueId == IF venue = Null THEN Null ELSE venue

\* A disconnect() that leaves the asset map as it is.
DisconnectKeepsMap ==
  /\ venue' = Null
  /\ assetsDeployed' = FALSE
  /\ passes' = 0
  /\ calls' = [c \in Calls |->
                 IF calls[c].pc \in {"creating", "listing", "returned"}
                 THEN [calls[c] EXCEPT !.clean = FALSE] ELSE calls[c]]
  /\ UNCHANGED <<assetIdMap, held, otherVars>>

\* A disconnect() that leaves the deployed flag set.
DisconnectKeepsDeployed ==
  /\ venue' = Null
  /\ assetIdMap' = [n \in {} |-> Undefined]
  /\ passes' = 0
  /\ calls' = [c \in Calls |->
                 IF calls[c].pc \in {"creating", "listing", "returned"}
                 THEN [calls[c] EXCEPT !.clean = FALSE] ELSE calls[c]]
  /\ UNCHANGED <<assetsDeployed, held, otherVars>>

\* The three assignments of disconnect().
Disconnecting ==
  /\ venue' = Null
  /\ assetsDeployed' = FALSE
  /\ assetIdMap' = [n \in {} |-> Undefined]
  /\ passes' = 0
  /\ calls' = [c \in Calls |->
                 IF calls[c].pc \in {"creating", "listing", "returned"}
                 THEN [calls[c] EXCEPT !.clean = FALSE] ELSE calls[c]]

\* A disconnect() that resets assetsDeployed and keeps the venue and the map.
DisconnectKeepsVenue ==
  /\ assetsDeployed' = FALSE
  /\ UNCHANGED <<venue, assetIdMap, passes, calls, held, otherVars>>

\* disconnect()
Disconnect ==
  /\ Disconnecting
  /\ UNCHANGED <<held, otherVars>>

\* disconnect() called while executeActions waits for a remote call (the
\* only point where another task runs before executeActions ends).
DisconnectWhileAwaiting ==
  /\ pc = "awaiting"
  /\ venue # Null
  /\ Disconnect

\* executeActions on a client that may be disconnected while a remote call
\* is awaited.
NextExecDisconnect ==
  \/ ExecuteActions
  \/ Continue
  \/ \E r \in Results : RunResolves(r)
  \/ \E e \in Thrown : RunRejects(e)
  \/ DisconnectWhileAwaiting

SpecExecDisconnect == InitExec /\ [][NextExecDisconnect]_vars

\* A new client, and a venue that holds any of the operations already.
InitConnect ==
  /\ venue = Null
  /\ assetsDeployed = FALSE
  /\ assetIdMap = [n \in {} |-> Undefined]
  /\ calls = [c \in Calls |-> IdleCall]
  /\ \E h \in SUBSET (PassNames \cup {ForeignName}) :
       held = [NoAssets EXCEPT !["venue-1"] = h]
  /\ passes = 0
  /\ settings = [k \in ServerKeys |-> ""]
  /\ actionItems = << >>
  /\ pc = "idle"
  /\ idx = 0
  /\ events = << >>
  /\ runsInFlight = 0
  /\ rejection = Undefined
  /\ HealthUnmounted
  /\ PingUnused
  /\ UiUnused

NextConnect ==
  \/ \E c \in Calls, url \in OneVenue : Connect(c, url)
  \/ \E c \in Calls : GridConnectRejects(c)
  \/ \E c \in Calls : GridConnectResolves(c)
  \/ \E c \in Calls : CreateAssetResolves(c)
  \/ \E c \in Calls, e \in CreateErrors : CreateAssetRejects(c, e)
  \/ \E c \in Calls : GetAssetsResolves(c)
  \/ \E c \in Calls : GetAssetsRejects(c)
  \/ Disconnect

SpecConnect == InitConnect /\ [][NextConnect]_vars

\* A new client and two venues that hold nothing: connect() is called for
\* either venue.
InitSwitch ==
  /\ venue = Null
  /\ assetsDeployed = FALSE
  /\ assetIdMap = [n \in {} |-> Undefined]
  /\ calls = [c \in Calls |-> IdleCall]
  /\ held = NoAssets
  /\ passes = 0
  /\ settings = [k \in ServerKeys |-> ""]
  /\ actionItems = << >>
  /\ pc = "idle"
  /\ idx = 0
  /\ events = << >>
  /\ runsInFlight = 0
  /\ rejection = Undefined
  /\ HealthUnmounted
  /\ PingUnused
  /\ UiUnused

NextSwitch ==
  \/ \E c \in Calls, url \in Venues : Connect(c, url)
  \/ \E c \in Calls : GridConnectRejects(c)
  \/ \E c \in Calls : GridConnectResolves(c)
  \/ \E c \in Calls : CreateAssetResolves(c)
  \/ \E c \in Calls, e \in CreateErrors : CreateAssetRejects(c, e)
  \/ \E c \in Calls : GetAssetsResolves(c)
  \/ \E c \in Calls : GetAssetsRejects(c)
  \/ Disconnect

SpecSwitch == InitSwitch /\ [][NextSwitch]_vars

\* ------------------------------------------------------------ useVenue

\* What client.connect(url) may reject with (what Grid.connect threw).
ConnectThrown == {ErrorValue("Connection refused"), OtherValue("plain string error")}

\* What `venue.venueId` throws when connect resolved with null.
NullVenueIdError == ErrorValue("Cannot read properties of null (reading 'venueId')")

\* A catch block that stores what it caught.
WrapErrorKeepsValue(e) == e

\* e instanceof Error ? e : new Error(String(e))
WrapError(e) == IF e.isError THEN e ELSE ErrorValue(e.string)

\* What the hook and the client leave alone.
hookOtherVars == <<settings, actionItems, pc, idx, events, runsInFlight,
                   rejection, healthVars, pingVars, op, app>>

\* A call of the hook's connect has been resumed by the promise of
\* client.connect and has not run yet: it runs before anything else.
SettlePending ==
  \E c \in Calls :
    hook.calls[c] = "awaiting" /\ calls[c].pc \in {"returned", "rejected"}

\* connect(url) of the hook up to `await client.connect(url)`, which runs
\* the client's connect up to its first await.
HookConnect(c) ==
  /\ ~SettlePending
  /\ hook.calls[c] = "idle"
  /\ calls[c].pc = "idle"
  /\ hook' = [hook EXCEPT !.status = "connecting", !.error = << >>,
                          !.calls[c] = "awaiting"]
  /\ calls' = Connecting(c, "venue-1")
  /\ UNCHANGED <<venue, assetIdMap, assetsDeployed, held, passes, hookOtherVars>>

\* connect(url) of the hook after `await client.connect(url)`: with the
\* venue the client resolved with, or in the catch block with e, what the
\* client rejected with.
HookConnectResumes(c, e) ==
  /\ hook.calls[c] = "awaiting"
  /\ calls[c].pc \in {"returned", "rejected"}
  /\ hook' =
       IF calls[c].pc = "rejected"
       THEN [hook EXCEPT !.status = "error", !.error = <<WrapError(e)>>,
                         !.calls[c] = "resolved"]
       ELSE IF calls[c].ret = Null
       THEN [hook EXCEPT !.status = "error",
                         !.error = <<WrapError(NullVenueIdError)>>,
                         !.calls[c] = "resolved"]
       ELSE [hook EXCEPT !.status = "connected", !.venueId = calls[c].ret,
                         !.calls[c] = "resolved"]
  /\ UNCHANGED <<venue, assetIdMap, connectVars, hookOtherVars>>

\* disconnect() of the hook.
HookDisconnect ==
  /\ ~SettlePending
  /\ Disconnecting
  /\ hook' = [hook EXCEPT !.status = "disconnected", !.venueId = Null,
                          !.error = << >>]
  /\ UNCHANGED <<held, hookOtherVars>>

\* A new client and a mounted hook; the venue holds nothing.
InitVenue ==
  /\ venue = Null
  /\ assetsDeployed = FALSE
  /\ assetIdMap = [n \in {} |-> Undefined]
  /\ calls = [c \in Calls |-> IdleCall]
  /\ held = NoAssets
  /\ passes = 0
  /\ settings = [k \in ServerKeys |-> ""]
  /\ actionItems = << >>
  /\ pc = "idle"
  /\ idx = 0
  /\ events = << >>
  /\ runsInFlight = 0
  /\ rejection = Undefined
  /\ HealthUnmounted
  /\ PingUnused
  /\ UiUnused

NextVenue ==
  \/ \E c \in Calls : HookConnect(c)
  \/ \E c \in Calls, e \in ConnectThrown : HookConnectResumes(c, e)
  \/ HookDisconnect
  \/ \E c \in Calls : ~SettlePending /\ GridConnectRejects(c)
  \/ \E c \in Calls : ~SettlePending /\ GridConnectResolves(c)
  \/ \E c \in Calls : ~SettlePending /\ CreateAssetResolves(c)
  \/ \E c \in Calls, e \in CreateErrors :
       ~SettlePending /\ CreateAssetRejects(c, e)
  \/ \E c \in Calls : ~SettlePending /\ GetAssetsResolves(c)
  \/ \E c \in Calls : ~SettlePending /\ GetAssetsRejects(c)

SpecVenue == InitVenue /\ [][NextVenue]_vars

\* ------------------------------------- the other operations of the client

TranscriptSources ==
  {"granola", "fathom", "fireflies", "otter", "tldv", "avoma", "read", "zoom",
   "teams-meeting"}

FETCH_ASSET_NAMES ==
  [source \in TranscriptSources |->
     CASE source = "granola"       -> "pm:fetchGranolaNote"
       [] source = "fathom"        -> "pm:fetchFathomSummary"
       [] source = "fireflies"     -> "pm:fetchFirefliesTranscript"
       [] source = "otter"         -> "pm:fetchOtterTranscript"
       [] source = "tldv"          -> "pm:fetchTldvHighlights"
       [] source = "avoma"         -> "pm:fetchAvomaSummary"
       [] source = "read"          -> "pm:fetchReadSummary"
       [] source = "zoom"          -> "pm:fetchZoomAISummary"
       [] source = "teams-meeting" -> "pm:fetchTeamsMeetingSummary"]

FETCH_SERVER_KEYS ==
  [source \in TranscriptSources |->
     IF source = "teams-meeting" THEN "teamsMeetingServer"
     ELSE source \o "Server"]

FETCH_TOKEN_KEYS ==
  [source \in TranscriptSources |->
     IF source = "teams-meeting" THEN "teamsMeetingToken"
     ELSE source \o "Token"]

\* new Error('Not connected to venue')
NotConnectedError == ErrorValue("Not connected to venue")

\* A call of an operation that threw before its first await.
OpRejected(name, e) ==
  [name |-> name, pc |-> "rejected", remote |-> << >>, settled |-> <<e>>]

\* A call of an operation that awaits the remote call r.
OpAwaiting(name, r) ==
  [name |-> name, pc |-> "awaiting", remote |-> <<r>>, settled |-> << >>]

\* this.venue.run(operation, input) and this.venue.getAssets()
VenueRun(operation, input) ==
  [method |-> "run", operation |-> operation, input |-> input]
VenueGetAssets == [method |-> "getAssets", operation |-> "", input |-> << >>]

\* A guard that is missing: the operation goes to its remote call.
NotConnectedGuardMissing(name, then) == op' = then

\* if (!this.venue) throw new Error('Not connected to venue'), and the rest
\* of the operation up to its first await otherwise.
NotConnectedGuard(name, then) ==
  op' = IF venue = Null THEN OpRejected(name, NotConnectedError) ELSE then

opOtherVars == <<settings, execVars, healthVars, connectVars, pingVars, hook, app>>

\* analyzeMeeting(notes, meetingType, settings) up to `await this.venue.run`.
\* The system prompt is text built from the arguments alone; it is left out
\* of the call's input here.
AnalyzeMeeting(notes) ==
  /\ op.pc # "awaiting"
  /\ NotConnectedGuard("analyzeMeeting",
       OpAwaiting("analyzeMeeting",
                  VenueRun("langchain:openai",
                           [prompt |-> notes, model |-> "gpt-4-turbo"])))
  /\ UNCHANGED opOtherVars

\* `Asset ${assetName} not found - ensure the venue is connected` (the
\* source has a long dash where this text has a hyphen).
AssetNotFoundError(assetName) ==
  ErrorValue("Asset " \o assetName \o " not found - ensure the venue is connected")

\* A fetchTranscript that does not look at what the map returned.
FetchTranscriptUnchecked(source, callRef) ==
  /\ op.pc # "awaiting"
  /\ LET assetName == FETCH_ASSET_NAMES[source]
         assetId   == MapGet(assetIdMap, assetName)
         server    == Field(settings, FETCH_SERVER_KEYS[source])
         token     == Field(settings, FETCH_TOKEN_KEYS[source])
     IN  NotConnectedGuard("fetchTranscript",
           OpAwaiting("fetchTranscript",
                      VenueRun(assetId, [callRef |-> callRef,
                                         server  |-> server,
                                         token   |-> token])))
  /\ UNCHANGED opOtherVars

\* fetchTranscript(source, callRef, settings) up to `await this.venue.run`.
FetchTranscript(source, callRef) ==
  /\ op.pc # "awaiting"
  /\ LET assetName == FETCH_ASSET_NAMES[source]
         assetId   == MapGet(assetIdMap, assetName)
         server    == Field(settings, FETCH_SERVER_KEYS[source])
         token     == Field(settings, FETCH_TOKEN_KEYS[source])
     IN  NotConnectedGuard("fetchTranscript",
           IF ~Truthy(assetId)
           THEN OpRejected("fetchTranscript", AssetNotFoundError(assetName))
           ELSE OpAwaiting("fetchTranscript",
                           VenueRun(assetId, [callRef |-> callRef,
                                              server  |-> server,
                                              token   |-> token])))
  /\ UNCHANGED opOtherVars

\* executeFullWorkflow(notes, config): returns the promise of
\* `this.venue.run('pm:fullWorkflow', { notes, ...config })`.
ExecuteFullWorkflow(notes, config) ==
  /\ op.pc # "awaiting"
  /\ NotConnectedGuard("executeFullWorkflow",
       OpAwaiting("executeFullWorkflow",
                  VenueRun("pm:fullWorkflow", config @@ [notes |-> notes])))
  /\ UNCHANGED opOtherVars

\* getDeployedAssets() up to `await this.venue.getAssets()`.
GetDeployedAssets ==
  /\ op.pc # "awaiting"
  /\ NotConnectedGuard("getDeployedAssets",
       OpAwaiting("getDeployedAssets", VenueGetAssets))
  /\ UNCHANGED opOtherVars

\* What the venue answers to a run call. A text is what JSON.parse makes of
\* it (doc, or a SyntaxError when parses is false), whether it is wrapped
\* in a ``` fence, and whether it is the empty string; a document names the
\* fields of it that are arrays.
Doc(fields) == [arrays |-> fields]
Text(fenced, parses, empty, doc) ==
  [fenced |-> fenced, parses |-> parses, empty |-> empty, doc |-> doc]
FullDoc    == Doc({"actionItems", "blockers", "decisions"})
PartialDoc == Doc({"actionItems"})
EmptyText  == Text(FALSE, FALSE, TRUE, Doc({}))
Texts ==
  {Text(FALSE, TRUE, FALSE, FullDoc), Text(TRUE, TRUE, FALSE, FullDoc),
   Text(FALSE, TRUE, FALSE, PartialDoc), Text(FALSE, FALSE, FALSE, Doc({})),
   Text(TRUE, FALSE, FALSE, Doc({})), EmptyText}

\* A reply is a string, an object (with its response, transcript and
\* summary fields, each a text or absent), or undefined.
Absent == << >>
Reply(type, response, transcript, summary) ==
  [type |-> type, response |-> response, transcript |-> transcript,
   summary |-> summary]
Replies ==
  {Reply("string", <<t>>, Absent, Absent) : t \in Texts}
    \cup {Reply("object", <<t>>, Absent, Absent) : t \in Texts}
    \cup {Reply("object", Absent, tr, su) :
            tr \in {Absent, <<EmptyText>>, <<Text(FALSE, FALSE, FALSE, Doc({}))>>},
            su \in {Absent, <<Text(FALSE, FALSE, FALSE, Doc({}))>>}}
    \cup {Reply("undefined", Absent, Absent, Absent)}

\* JSON.stringify(result) of an object: a text that parses, to a document
\* with none of the three arrays.
JsonStringify(reply) == Text(FALSE, TRUE, FALSE, Doc({}))

\* analyzeMeeting after the run call resolved with result: the response
\* text is taken from it, a fence is stripped, the text is parsed and the
\* three arrays are defaulted.
AnalysisOf(result) ==
  LET responseText ==
        IF result.type = "string" THEN result.response
        ELSE IF result.type = "object" /\ result.response # Absent
                  /\ ~result.response[1].empty
             THEN result.response
             ELSE IF result.type = "object" THEN <<JsonStringify(result)>>
             ELSE Absent
  IN  IF responseText = Absent \/ responseText[1].empty
      THEN [pc |-> "rejected",
            value |-> ErrorValue("No response from meeting analysis. Received")]
      ELSE IF ~responseText[1].parses
      THEN [pc |-> "rejected",
            value |-> ErrorValue("Failed to parse analysis response: Unexpected token")]
      ELSE [pc |-> "resolved",
            value |-> [actionItems |-> "actionItems" \in responseText[1].doc.arrays,
                       blockers    |-> "blockers" \in responseText[1].doc.arrays,
                       decisions   |-> "decisions" \in responseText[1].doc.arrays]]

\* result?.transcript ?? result?.summary ?? JSON.stringify(result)
TranscriptOf(result) ==
  IF result.type = "object" /\ result.transcript # Absent THEN result.transcript
  ELSE IF result.type = "object" /\ result.summary # Absent THEN result.summary
  ELSE IF result.type = "undefined" THEN Absent
  ELSE <<JsonStringify(result)>>

\* assets.filter(a => a.metadata?.name?.startsWith('pm:')).map(name ?? id),
\* for the listing of the assets the venue holds.
DeployedNames(names) == {n \in names : StartsWith(n, "pm:")}

\* The awaited remote call of the operation resolves.
OpRemoteResolves(result) ==
  /\ op.pc = "awaiting"
  /\ op' = CASE op.name = "analyzeMeeting" ->
                 [op EXCEPT !.pc = AnalysisOf(result).pc,
                            !.settled = <<AnalysisOf(result).value>>]
              [] op.name = "fetchTranscript" ->
                 [op EXCEPT !.pc = "resolved", !.settled = <<TranscriptOf(result)>>]
              [] op.name = "executeFullWorkflow" ->
                 [op EXCEPT !.pc = "resolved", !.settled = <<result>>]
              [] op.name = "getDeployedAssets" ->
                 [op EXCEPT !.pc = "resolved", !.settled = <<DeployedNames(held[venue])>>]
  /\ UNCHANGED opOtherVars

\* The awaited remote call of the operation rejects: so does the operation.
OpRemoteRejects(e) ==
  /\ op.pc = "awaiting"
  /\ op' = [op EXCEPT !.pc = "rejected", !.settled = <<e>>]
  /\ UNCHANGED opOtherVars

\* The sources whose fetch operation the venue may hold.
ProbeSources == {"granola", "teams-meeting"}

Notes == {"notes"}
CallRefs == {"ref-1"}
WorkflowConfigs == {<< >>, [jiraServer |-> ServerUrl("jiraServer")]}

\* A client that is connected or not; connected, its map holds the fetch
\* operations of any of the probe sources.
InitOps ==
  \E connected \in BOOLEAN : \E M \in SUBSET ProbeSources :
    /\ venue = IF connected THEN "venue-1" ELSE Null
    /\ assetsDeployed = connected
    /\ assetIdMap = IF connected
                    THEN [n \in {FETCH_ASSET_NAMES[m] : m \in M} |-> AssetIdOf(n)]
                    ELSE [n \in {} |-> Undefined]
    /\ held = IF connected
              THEN [NoAssets EXCEPT !["venue-1"] =
                      {FETCH_ASSET_NAMES[m] : m \in M} \cup {ForeignName}]
              ELSE NoAssets
    /\ calls = [c \in Calls |-> IdleCall]
    /\ passes = 0
    /\ settings \in {[k \in ServerKeys |-> ""], [k \in ServerKeys |-> ServerUrl(k)]}
    /\ actionItems = << >>
    /\ pc = "idle"
    /\ idx = 0
    /\ events = << >>
    /\ runsInFlight = 0
    /\ rejection = Undefined
    /\ HealthUnmounted
    /\ PingUnused
    /\ UiUnused

NextOps ==
  \/ \E notes \in Notes : AnalyzeMeeting(notes)
  \/ \E source \in TranscriptSources, callRef \in CallRefs :
       FetchTranscript(source, callRef)
  \/ \E notes \in Notes, config \in WorkflowConfigs :
       ExecuteFullWorkflow(notes, config)
  \/ GetDeployedAssets
  \/ \E result \in Replies : OpRemoteResolves(result)
  \/ \E e \in Thrown : OpRemoteRejects(e)

SpecOps == InitOps /\ [][NextOps]_vars

\* ============================================================ dispatcher
\* Properties of executeActions, read off the inputs and the event log.

\* The inputs of dispatch call k, read directly.
ServerSet(k) == settings[DISPATCHES[k].serverField] # ""
HasItems(k)  == \E n \in DOMAIN actionItems : actionItems[n].target = DISPATCHES[k].target
HasAsset(k)  == DISPATCHES[k].assetName \in DOMAIN assetIdMap
ShouldRun(k) == ServerSet(k) /\ HasItems(k) /\ HasAsset(k)

EventsOf(t) == SelectSeq(events, LAMBDA ev : ev.id = t)
IsUpdate(ev, status) == ev.kind = "update" /\ ev.status = status
IsTerminal(ev) == ev.kind = "update" /\ ev.status \in {"success", "error", "skipped"}
Terminals == SelectSeq(events, IsTerminal)
TerminalCount(id) == Len(SelectSeq(events, LAMBDA ev : IsTerminal(ev) /\ ev.id = id))
RunCount(t) == Len(SelectSeq(events, LAMBDA ev : ev.kind = "run" /\ ev.id = t))
IsRejection(ev) == ev.kind = "settled" /\ ~ev.resolved
Failed(k) == \E n \in DOMAIN events : IsRejection(events[n]) /\ events[n].id = DISPATCHES[k].target
Skipped(t) == StepUpdate(t, "skipped", Undefined, Undefined)
\* Dispatch call k has returned.
Returned(k) == pc = "resolved" \/ (pc = "dispatch" /\ idx > k) \/ (pc = "awaiting" /\ idx > k)

\* C1: a remote call that throws stops nothing. Once a call has rejected,
\* executeActions does not reject and is never stuck before it resolves; and
\* when it has resolved, every target after a failed one that has a server,
\* items and an asset got exactly one remote call of its own and ended in
\* 'success' if that call resolved and in 'error' if it rejected.
C1_FailureDoesNotStopLaterTargets ==
  /\ (\E n \in DOMAIN events : IsRejection(events[n])) =>
        /\ pc # "rejected"
        /\ rejection = Undefined
        /\ (pc # "resolved" => ENABLED (Continue \/ (\E r \in Results : RunResolves(r))))
  /\ pc = "resolved" =>
       \A i \in DOMAIN DISPATCHES : \A j \in DOMAIN DISPATCHES :
         (i < j /\ Failed(i) /\ ShouldRun(j)) =>
            LET es == EventsOf(DISPATCHES[j].target)
            IN  /\ RunCount(DISPATCHES[j].target) = 1
                /\ Len(es) = 4
                /\ es[3].kind = "settled"
                /\ IsUpdate(es[4], IF es[3].resolved THEN "success" ELSE "error")

C1_Witness ==
  /\ pc = "resolved"
  /\ \E i \in DOMAIN DISPATCHES : \E j \in DOMAIN DISPATCHES :
       /\ i < j /\ Failed(i) /\ ShouldRun(j)
       /\ \E n \in DOMAIN events : events[n].id = DISPATCHES[j].target
                                   /\ IsUpdate(events[n], "success")

\* C2 as stated: when executeActions has resolved, every descriptor of
\* INTEGRATIONS has exactly one terminal update and their number is the
\* number of descriptors.
C2_EveryRegistryDescriptorTerminal ==
  pc = "resolved" =>
    /\ \A id \in IntegrationIds : TerminalCount(id) = 1
    /\ Len(Terminals) = Len(INTEGRATIONS)

\* C2, amended: no execution target (a descriptor whose category is in the
\* 'execution' group) ever has more than one terminal update, terminal
\* updates go to execution targets only, and when executeActions has
\* resolved each of the 12 execution targets has exactly one.
C2_EveryExecutionTargetTerminal ==
  /\ \A n \in DOMAIN Terminals : Terminals[n].id \in ExecutionIds
  /\ \A id \in ExecutionIds : TerminalCount(id) <= 1
  /\ pc = "resolved" =>
       /\ \A id \in ExecutionIds : TerminalCount(id) = 1
       /\ Len(Terminals) = Cardinality(ExecutionIds)

C2_Witness ==
  /\ pc = "resolved"
  /\ \E n \in DOMAIN events : IsUpdate(events[n], "success")
  /\ \E n \in DOMAIN events : IsUpdate(events[n], "error")
  /\ \E n \in DOMAIN events : IsUpdate(events[n], "skipped")

C4_ErrorOnExactlyTheFailedTarget ==
  /\ \A n \in DOMAIN events :
       IsRejection(events[n]) =>
         /\ n + 1 \in DOMAIN events
         /\ events[n + 1] =
              [kind |-> "update", id |-> events[n].id, status |-> "error",
               result |-> Undefined,
               error |-> IF events[n].value.isError THEN events[n].value.message
                                                    ELSE events[n].value.string]
  /\ \A n \in DOMAIN events :
       events[n].kind = "update" =>
         IF events[n].status = "error"
         THEN n > 1 /\ IsRejection(events[n - 1]) /\ events[n - 1].id = events[n].id
         ELSE events[n].error = Undefined

C4_Witness ==
  \E n \in DOMAIN events : \E m \in DOMAIN events :
    /\ n < m
    /\ IsUpdate(events[n], "error") /\ events[n].error = "Jira API error"
    /\ IsUpdate(events[m], "success") /\ events[m].id # events[n].id

\* C5: the events of one target are, in order: nothing yet; or the one
\* 'skipped' update; or 'running', then the remote call, then (once the call
\* has settled) 'success' with the call's result if it resolved and 'error'
\* if it rejected, and nothing after that.
C5_RunningThenOneTerminal ==
  \A k \in DOMAIN DISPATCHES :
    LET t  == DISPATCHES[k].target
        es == EventsOf(t)
    IN  \/ es = << >>
        \/ es = << Skipped(t) >>
        \/ /\ Len(es) \in {2, 4}
           /\ es[1] = StepUpdate(t, "running", Undefined, Undefined)
           /\ es[2].kind = "run"
           /\ Len(es) = 2 => (pc = "awaiting" /\ idx = k)
           /\ Len(es) = 4 =>
                /\ es[3].kind = "settled"
                /\ IF es[3].resolved
                   THEN es[4] = StepUpdate(t, "success", es[3].value, Undefined)
                   ELSE IsUpdate(es[4], "error") /\ es[4].result = Undefined

C5_Witness ==
  /\ pc = "resolved"
  /\ \E n \in DOMAIN events :
       IsUpdate(events[n], "success") /\ events[n].result = "result-1"
  /\ \E n \in DOMAIN events : IsUpdate(events[n], "error")

\* C6: a target with a server and items whose operation name is not in the
\* asset map: every event of it is the 'skipped' update, once its dispatch
\* call has returned it has exactly that one update, and executeActions
\* does not reject.
C6_SkipWithoutAsset ==
  \A k \in DOMAIN DISPATCHES :
    (venue # Null /\ ServerSet(k) /\ HasItems(k) /\ ~HasAsset(k)) =>
       LET t == DISPATCHES[k].target
       IN  /\ \A n \in DOMAIN events : events[n].id = t => events[n] = Skipped(t)
           /\ Returned(k) => EventsOf(t) = << Skipped(t) >>
           /\ pc # "rejected" /\ rejection = Undefined

C6_Witness ==
  /\ pc = "resolved"
  /\ \E k \in DOMAIN DISPATCHES : ServerSet(k) /\ HasItems(k) /\ ~HasAsset(k)

\* C7: on a client that is not connected, a call of executeActions has
\* rejected with 'Not connected to venue', with no step update and no
\* remote call made; and executeActions rejects in no other case.
C7_NotConnectedRejectsFirst ==
  /\ (venue = Null /\ pc # "idle") =>
        /\ pc = "rejected"
        /\ rejection = "Not connected to venue"
        /\ events = << >>
        /\ runsInFlight = 0
  /\ pc = "rejected" => venue = Null

C7_Witness ==
  /\ pc = "rejected"
  /\ actionItems # << >>
  /\ \E k \in DOMAIN DISPATCHES : ServerSet(k) /\ HasItems(k)

\* The order the claim C8 lists.
RegistryOrder ==
  << "jira", "linear", "azure-devops", "github", "gitlab", "slack", "teams",
     "email", "pagerduty", "sentry", "confluence", "calendar" >>

Position(t) == CHOOSE k \in DOMAIN RegistryOrder : RegistryOrder[k] = t

\* C8: the targets are processed one at a time in registry order: the
\* first descriptors of INTEGRATIONS are the listed targets in that order,
\* the n-th terminal update is the n-th target's, every event of a target
\* comes after the terminal update of the target before it, and at most
\* one remote call is in flight.
C8_SequentialRegistryOrder ==
  /\ \A k \in DOMAIN RegistryOrder : INTEGRATIONS[k].id = RegistryOrder[k]
  /\ \A n \in DOMAIN Terminals : Terminals[n].id = RegistryOrder[n]
  /\ \A n \in DOMAIN events :
       LET p == Position(events[n].id)
       IN  /\ n > 1 => Position(events[n - 1].id) <= p
           /\ p > 1 => \E m \in 1..(n - 1) :
                          IsTerminal(events[m]) /\ events[m].id = RegistryOrder[p - 1]
  /\ runsInFlight \in {0, 1}
  /\ runsInFlight = 1 <=> pc = "awaiting"

C8_Witness ==
  /\ pc = "resolved"
  /\ Len(SelectSeq(events, LAMBDA ev : ev.kind = "run")) >= 2

\* ========================================================= health monitor
\* Properties of useHealthChecks.

\* C9: while the hook stays disconnected, an empty health map stays empty:
\* no ping that settles after the map was cleared writes an entry into it.
C9_LatePingIgnored ==
  [][(~isConnected /\ ~isConnected' /\ health = EmptyHealth) => health' = EmptyHealth]_vars

\* C10: the render in which isConnected turns false schedules the clearing
\* and leaves the map as it is; while the hook stays disconnected the
\* clearing stays scheduled until it runs, and when it runs the map is
\* empty whatever it held; and while disconnected no other timer of
\* Effect 1 is pending.
C10_DisconnectClearsHealth ==
  /\ [][(isConnected /\ ~isConnected') =>
          (effectTimer'.kind = "clear" /\ health' = health)]_vars
  /\ [][(~isConnected /\ ~isConnected' /\ effectTimer.kind = "clear") =>
          \/ effectTimer'.kind = "clear"
          \/ effectTimer'.kind = "none" /\ health' = EmptyHealth]_vars
  /\ [](~isConnected => effectTimer.kind \in {"clear", "none"})

C10_Witness ==
  /\ ~isConnected
  /\ effectTimer.kind = "none"
  /\ clearedEntries
  /\ health = EmptyHealth

\* The pingServer calls a step issues: a check round with targets started.
RoundStarted == BagCardinality(pings') > BagCardinality(pings)

\* The (serverKey, url) pairs a round over configuration s probes.
ProbesOf(s) == {Targets(s)[n] : n \in DOMAIN Targets(s)}

\* C11: while connected and a configuration change has not settled (its
\* 500 ms delay has not elapsed), the only round a timer starts is the one
\* of the debounce timer, which ends the burst and probes exactly the last
\* configuration; so a burst causes one round and an intermediate
\* configuration is never probed.
C11_BurstCausesOneRound ==
  [][(unsettled /\ RoundStarted /\ rechecks' = rechecks) =>
        /\ debounceRef.kind = "run" /\ debounceRef'.kind = "none"
        /\ pings' = pings (+) SetToBag(ProbesOf(settings))]_vars

\* C12: the step that starts a round probes exactly the checkable
\* integrations of the current configuration, and in the health map after
\* that one step every one of them is 'checking': no map shows a part of
\* the round's targets 'checking' and the rest with their earlier value.
C12_RoundMarksAllChecking ==
  [][RoundStarted =>
        /\ pings' (-) pings = SetToBag(ProbesOf(settings))
        /\ \A p \in ProbesOf(settings) :
              /\ p.serverKey \in DOMAIN health'
              /\ health'[p.serverKey] = "checking"]_vars

\* A round over two integrations has just started: both are 'checking'.
C12_Witness ==
  /\ Cardinality(DOMAIN health) >= 2
  /\ \A k \in DOMAIN health : health[k] = "checking"
  /\ BagToSet(pings) = ProbesOf(settings)
  /\ BagCardinality(pings) = Cardinality(DOMAIN health)

\* The orders in which the probes of R can settle.
Orders(R) ==
  {f \in [1..Cardinality(R) -> R] : \A i, j \in DOMAIN f : i # j => f[i] # f[j]}

\* The health map after the probes of order settled one after another, the
\* probe p with the result reachable[p].
RECURSIVE SettleInOrder(_, _, _)
SettleInOrder(prev, order, reachable) ==
  IF order = << >> THEN prev
  ELSE SettleInOrder(SetEntry(prev, Head(order).serverKey, reachable[Head(order)]),
                     Tail(order), reachable)

\* The probes in flight are those of one round: one per integration.
OneRoundInFlight ==
  /\ BagCardinality(pings) = Cardinality(BagToSet(pings))
  /\ \A p, q \in BagToSet(pings) : p.serverKey = q.serverKey => p = q

StatusOf(reachable) == IF reachable THEN "ok" ELSE "unreachable"

\* C13: when the probes in flight are those of one round, then for every
\* outcome of each probe and every order in which they settle the map ends
\* the same: each probed integration 'ok' or 'unreachable' by its own
\* probe's result, every other entry as it was; and a step in which a
\* probe settles changes that probe's entry and no other.
C13_SettleOrderIndependent ==
  /\ [](OneRoundInFlight =>
          LET R == BagToSet(pings)
          IN  \A reachable \in [R -> BOOLEAN] : \A order \in Orders(R) :
                SettleInOrder(health, order, reachable) =
                  [k \in DOMAIN health \cup {p.serverKey : p \in R} |->
                     IF \E p \in R : p.serverKey = k
                     THEN StatusOf(reachable[CHOOSE p \in R : p.serverKey = k])
                     ELSE health[k]])
  /\ [][BagCardinality(pings') < BagCardinality(pings) =>
          \E p \in BagToSet(pings) :
            /\ pings' = pings (-) SetToBag({p})
            /\ DOMAIN health' = DOMAIN health \cup {p.serverKey}
            /\ health'[p.serverKey] \in {"ok", "unreachable"}
            /\ \A k \in DOMAIN health \ {p.serverKey} : health'[k] = health[k]]_vars

\* A round over two integrations has ended, one reachable and one not.
C13_Witness ==
  /\ pings = EmptyBag
  /\ \E k1, k2 \in DOMAIN health :
        /\ INTEGRATIONS[1].serverKey = k1 /\ INTEGRATIONS[2].serverKey = k2
        /\ health[k1] = "ok" /\ health[k2] = "unreachable"

\* C14: a step that starts a round leaves a map whose keys are exactly the
\* checkable integrations of the configuration the round checks (no entry
\* of a hidden integration or of one whose server field is empty), and a
\* probe is issued for checkable integrations only.
C14_MapKeysAreCheckable ==
  [][RoundStarted =>
        /\ DOMAIN health' = {p.serverKey : p \in ProbesOf(settings)}
        /\ \A p \in BagToSet(pings') :
              \E n \in DOMAIN INTEGRATIONS :
                /\ INTEGRATIONS[n].serverKey = p.serverKey
                /\ ~INTEGRATIONS[n].hidden
                /\ p.url # ""]_vars

\* C15: a recheck() call while connected starts, in that same step, a round
\* over the current configuration (its checkable integrations are probed
\* and marked 'checking'; with none the map is emptied) and touches no
\* timer; a recheck() call while disconnected changes nothing: no probe,
\* no timer, the same health map.
C15_RecheckRoundOrNoop ==
  [][rechecks' # rechecks =>
        /\ UNCHANGED <<effectTimer, debounceRef, isConnected, settings>>
        /\ IF isConnected
           THEN /\ pings' = pings (+) SetToBag(ProbesOf(settings))
                /\ health' = IF ProbesOf(settings) = {} THEN EmptyHealth
                              ELSE MarkChecking(health, Targets(settings))
           ELSE UNCHANGED <<health, pings>>]_vars

\* recheck() was called on a hook that is disconnected with a server
\* configured, and nothing is in flight or scheduled to probe.
C15_Witness ==
  /\ rechecks = 1
  /\ ~isConnected
  /\ ProbesOf(settings) # {}
  /\ pings = EmptyBag
  /\ health = EmptyHealth
  /\ debounceRef.kind = "none"
  /\ ~clearedEntries

\* ------------------------------------------------------------------------
\* Properties of pingServer.

\* C16: pingServer never rejects and what it returns is a boolean: true
\* exactly when fetch resolved with a response, whatever its status, false
\* when fetch failed at network level and false when the request was
\* aborted; the request is aborted only by the timer, once timeoutMs (5000
\* unless passed) has elapsed with no response, and the timer is cleared by
\* the time pingServer returns.
C16_PingResolvesBoolean ==
  /\ ping.pc \in {"idle", "awaiting", "returned"}
  /\ ping.ret \in BOOLEAN
  /\ ping.pc = "awaiting" => ping.timeoutMs \in {DefaultTimeoutMs, 100, 3000}
  /\ ping.aborted => now >= ping.timeoutMs /\ ping.fetch # "response"
  /\ ping.pc = "returned" =>
        /\ ping.fetch \in {"response", "network-error", "abort-error"}
        /\ ping.ret = (ping.fetch = "response")
        /\ ping.fetch = "abort-error" => ping.aborted
        /\ ~ping.timerPending

\* A ping with the default timeout came back false once 5000 ms had passed
\* without a response.
C16_Witness ==
  /\ ping.pc = "returned"
  /\ ping.fetch = "abort-error"
  /\ ~ping.ret
  /\ ping.timeoutMs = DefaultTimeoutMs
  /\ now = DefaultTimeoutMs

\* C29: a pingServer call that has returned, by whichever path (response,
\* network failure, abort), has called clearTimeout on its timer exactly
\* once and the timer is no longer pending; a call that returned because
\* fetch settled by itself never had its request aborted.
C29_TimerClearedOnEveryPath ==
  ping.pc = "returned" =>
    /\ ping.clearCalls = 1
    /\ ~ping.timerPending
    /\ ping.fetch \in {"response", "network-error"} => ~ping.aborted

\* A ping with a 3000 ms timeout came back false on a network failure
\* before the timeout, its timer cleared without having fired.
C29_Witness ==
  /\ ping.pc = "returned"
  /\ ping.fetch = "network-error"
  /\ ping.timeoutMs = 3000
  /\ now > 0 /\ now < ping.timeoutMs
  /\ ping.clearCalls = 1
  /\ ~ping.aborted

\* ------------------------------------------------------------------------
\* Properties of connect and ensureAssets.

\* The messages that say the asset is there already, among those a
\* createAsset call can end with.
ConflictMessages ==
  {m \in {ErrorMessage(e) : e \in CreateErrors \cup {NullVenueCreateError}} :
     Includes(m, "409") \/ Includes(m, "already exists")}

ConflictMessage(errorMsg) == errorMsg \in ConflictMessages

\* The call c submitted every definition before the one it stands at, and
\* all of them once its loop has ended; a call that rejected or that found
\* the assets deployed submitted none.
PassGoesOn(c) ==
  LET r == calls[c]
  IN  /\ r.pc = "creating" =>
           DOMAIN r.outcomes = {PassAssets[j].name : j \in 1..(r.i - 1)}
      /\ r.pc = "listing" => DOMAIN r.outcomes = PassNames
      /\ r.pc = "returned" => DOMAIN r.outcomes \in {{}, PassNames}
      /\ r.pc \in {"idle", "connecting", "rejected"} => DOMAIN r.outcomes = {}

\* The call c resolved, with the client connected unless disconnect() was
\* called meanwhile.
ResolvedConnected(c) ==
  (calls[c].pc = "returned" /\ calls[c].clean) =>
     (calls[c].ret = "venue-1" /\ venue = "venue-1")

\* C17: a createAsset rejection whose message contains '409' or 'already
\* exists' is not warned about, does not make connect reject, and does not
\* stop the loop: the definitions after it are submitted too, and connect
\* resolves with the client connected.
C17_ConflictIsSuccess ==
  \A c \in Calls : \A n \in DOMAIN calls[c].outcomes :
    ConflictMessage(calls[c].outcomes[n].errorMsg) =>
      /\ n \notin calls[c].warned
      /\ calls[c].pc # "rejected"
      /\ PassGoesOn(c)
      /\ ResolvedConnected(c)

\* connect resolved connected after a pass whose first createAsset was
\* rejected with 'Asset already exists' and whose second one succeeded.
C17_Witness ==
  \E c \in Calls :
    /\ calls[c].pc = "returned" /\ calls[c].clean /\ calls[c].ret = "venue-1"
    /\ DOMAIN calls[c].outcomes = PassNames
    /\ calls[c].outcomes[PassAssets[1].name].errorMsg = "Asset already exists"
    /\ calls[c].outcomes[PassAssets[2].name].kind = "created"
    /\ calls[c].warned = {}

\* C18 as stated: after a createAsset rejection with any other message the
\* loop goes on, connect resolves, and once it has resolved the operation is
\* not in the asset map.
C18_FailedAbsentFromMap ==
  \A c \in Calls : \A n \in DOMAIN calls[c].outcomes :
    (calls[c].outcomes[n].kind # "created"
       /\ ~ConflictMessage(calls[c].outcomes[n].errorMsg)) =>
      /\ calls[c].pc # "rejected"
      /\ PassGoesOn(c)
      /\ ResolvedConnected(c)
      /\ calls[c].pc = "returned" => n \notin DOMAIN assetIdMap

\* C18, amended: after a createAsset rejection with any other message the
\* loop goes on (every remaining definition is submitted), the failure is
\* warned about, connect resolves, and the operation is in the asset map
\* only if the venue holds an asset of that name: it is absent when the
\* venue does not hold it.
C18_FailedAbsentUnlessHeld ==
  \A c \in Calls : \A n \in DOMAIN calls[c].outcomes :
    (calls[c].outcomes[n].kind # "created"
       /\ ~ConflictMessage(calls[c].outcomes[n].errorMsg)) =>
      /\ calls[c].pc # "rejected"
      /\ PassGoesOn(c)
      /\ ResolvedConnected(c)
      /\ n \in calls[c].warned
      /\ n \notin held["venue-1"] => n \notin DOMAIN assetIdMap

\* connect resolved connected after a pass whose first createAsset failed
\* with a 500 and whose second one succeeded: the second operation is in
\* the map, the first one, which the venue does not hold, is not.
C18_Witness ==
  \E c \in Calls :
    /\ calls[c].pc = "returned" /\ calls[c].clean /\ calls[c].ret = "venue-1"
    /\ calls[c].listed = "ok"
    /\ calls[c].outcomes[PassAssets[1].name].errorMsg = "500 Internal Server Error"
    /\ calls[c].outcomes[PassAssets[2].name].kind = "created"
    /\ PassAssets[1].name \notin held["venue-1"]
    /\ DOMAIN assetIdMap = {PassAssets[2].name}

\* C19: between two disconnect() calls at most one deployment pass starts,
\* however many connect() calls are made and whenever they are made.
C19_OnePassPerConnection == passes <= 1

\* C20: once a connect() call has resolved (and disconnect() was not called
\* since), every operation whose createAsset resolved or was rejected as
\* already existing is in the asset map under its name, with the identifier
\* the venue reports for it.
C20_RegisteredIsResolvable ==
  \A c \in Calls :
    (calls[c].pc = "returned" /\ calls[c].clean) =>
      \A n \in DOMAIN calls[c].outcomes :
        calls[c].outcomes[n].kind \in {"created", "conflict"} =>
          /\ n \in DOMAIN assetIdMap
          /\ assetIdMap[n] = AssetIdOf(n)

\* ------------------------------------------------------------------------
\* Properties of disconnect and of the operations of a client.

\* Every createAsset of the pass of call c resolved or was rejected as
\* already existing, and its getAssets resolved.
PassSucceeded(c) ==
  /\ calls[c].pc = "returned"
  /\ calls[c].listed = "ok"
  /\ DOMAIN calls[c].outcomes = PassNames
  /\ \A n \in PassNames : calls[c].outcomes[n].kind \in {"created", "conflict"}

\* C21: connect, disconnect, connect again against the same venue: when the
\* venue served the first connect() (every createAsset resolved or was
\* rejected as existing, getAssets resolved) and the second one resolved
\* with no disconnect() since and its getAssets did not fail, the asset map
\* of the second connect() is the one the first connect() built, and it
\* warned about nothing the venue answered with a conflict; the second
\* connect() rejects only when Grid.connect does, before any createAsset.
C21_ReconnectSameMap ==
  \A a \in Calls : \A b \in Calls \ {a} :
    /\ (calls[b].second /\ calls[b].pc = "rejected") =>
          DOMAIN calls[b].outcomes = {}
    /\ (/\ PassSucceeded(a)
        /\ calls[b].second
        /\ calls[b].pc = "returned"
        /\ calls[b].clean
        /\ calls[b].listed # "failed") =>
      /\ calls[b].map = calls[a].map
      /\ assetIdMap = calls[a].map
      /\ \A n \in DOMAIN calls[b].outcomes :
           calls[b].outcomes[n].kind = "conflict" => n \notin calls[b].warned

\* The first connect() created every operation, disconnect() followed, and
\* the second connect() found every operation existing (409) and resolved
\* with the same non-empty map and no warning.
C21_Witness ==
  \E a \in Calls : \E b \in Calls \ {a} :
    /\ PassSucceeded(a) /\ ~calls[a].clean
    /\ \A n \in PassNames : calls[a].outcomes[n].kind = "created"
    /\ calls[b].second /\ calls[b].pc = "returned" /\ calls[b].clean
    /\ PassSucceeded(b)
    /\ \A n \in PassNames : calls[b].outcomes[n].errorMsg = "409 Conflict"
    /\ calls[b].warned = {}
    /\ calls[b].map = calls[a].map
    /\ DOMAIN calls[b].map = PassNames

\* The client as disconnect() leaves it.
Disconnected ==
  /\ ~ClientIsConnected
  /\ ClientVenueId = Null
  /\ DOMAIN assetIdMap = {}
  /\ ~assetsDeployed

\* No connect() call other than b is between its call and its return.
NoneInFlightBut(b) ==
  \A a \in Calls \ {b} : calls[a].pc \in {"idle", "returned", "rejected"}

\* C22: disconnect() leaves the client with isConnected false, venueId null,
\* an empty asset map and the deployed flag reset; the next connect() that
\* reaches the venue from that state starts a new deployment pass, and the
\* getAssets of that pass fills the map again with the venue's pm:
\* operations.
C22_DisconnectResets ==
  [][/\ Disconnect => Disconnected'
     /\ \A b \in Calls :
          (Disconnected /\ NoneInFlightBut(b) /\ GridConnectResolves(b)) =>
             /\ passes' = passes + 1
             /\ calls'[b].pc = "creating"
             /\ calls'[b].i = 1
     /\ \A b \in Calls :
          (NoneInFlightBut(b) /\ calls[b].clean /\ GetAssetsResolves(b)) =>
             /\ DOMAIN assetIdMap' = held["venue-1"] \ {ForeignName}
             /\ \A n \in DOMAIN assetIdMap' : assetIdMap'[n] = AssetIdOf(n)
    ]_vars

\* disconnect() was called after a connect() that had filled the map: the
\* client is disconnected, the map is empty, the flag is reset.
C22_Witness ==
  \E a \in Calls :
    /\ calls[a].pc = "returned" /\ ~calls[a].clean
    /\ DOMAIN calls[a].map = PassNames
    /\ NoneInFlightBut(a)
    /\ Disconnected

\* The four operations that need a connection.
GuardedOperations ==
  {"analyzeMeeting", "fetchTranscript", "executeFullWorkflow",
   "getDeployedAssets"}

\* C23: on a client without a connection, a call of analyzeMeeting,
\* fetchTranscript, executeFullWorkflow or getDeployedAssets rejects with
\* an Error whose message says 'Not connected', has made no remote call,
\* and leaves the venue, the asset map and the deployed flag as they were.
C23_NotConnectedRejects ==
  [][(venue = Null /\ op' # op) =>
       /\ op'.name \in GuardedOperations
       /\ op'.pc = "rejected"
       /\ op'.settled[1].isError
       /\ Includes(op'.settled[1].message, "Not connected")
       /\ op'.remote = << >>
       /\ UNCHANGED <<venue, assetIdMap, assetsDeployed, calls>>
    ]_vars

\* fetchTranscript was called on a client without a connection (and so
\* with an empty asset map): it rejected with 'Not connected to venue'.
C23_Witness ==
  /\ venue = Null
  /\ op.name = "fetchTranscript"
  /\ op.pc = "rejected"
  /\ op.settled[1].message = "Not connected to venue"
  /\ op.remote = << >>

\* ------------------------------------------------------------------------
\* Properties of App.handleExecute.

\* executeActions reported the status 'error' for some step.
ErrorReported ==
  \E k \in DOMAIN events :
    events[k].kind = "update" /\ events[k].status = "error"

\* handleExecute has returned and React has applied every update it queued.
ExecutionShown ==
  app.pc = "finished" /\ app.applied = Len(QueuedUpdates)

\* C26: once handleExecute has finished, the overall status is 'error' if
\* some step update reported 'error' or executeActions threw, and
\* 'complete' otherwise; at no time is the status shown for it 'complete'
\* while a step failed (the status is that of this execution once React has
\* applied the first update it queued).
C26_OverallStatus ==
  /\ ExecutionShown =>
       app.executionState.status =
         IF ErrorReported \/ pc = "rejected" THEN "error" ELSE "complete"
  /\ (app.applied >= 1 /\ app.executionState.status = "complete") =>
       /\ ~ErrorReported
       /\ pc = "resolved"
       /\ \A k \in DOMAIN app.executionState.steps :
            app.executionState.steps[k].status # "error"

\* executeActions resolved after the step of one target had failed and the
\* step of a later one had succeeded: the overall status is 'error'.
C26_Witness ==
  /\ ExecutionShown
  /\ pc = "resolved"
  /\ app.executionState.status = "error"
  /\ \E j, k \in DOMAIN app.executionState.steps :
       /\ j < k
       /\ app.executionState.steps[j].status = "error"
       /\ app.executionState.steps[k].status = "success"

\* The events of dispatch call k, given what its remote call settled with
\* (read from the log): 'skipped' without a server, items or an asset;
\* otherwise 'running', the remote call with the items of the target, and
\* after the call settled the 'success' or 'error' update.
ExpectedOf(k) ==
  LET d == DISPATCHES[k]
      settledOf == SelectSeq(events, LAMBDA ev : ev.kind = "settled" /\ ev.id = d.target)
  IN  IF ~ShouldRun(k) THEN <<Skipped(d.target)>>
      ELSE << StepUpdate(d.target, "running", Undefined, Undefined),
              RunCall(d.target, assetIdMap[d.assetName],
                      SelectSeq(actionItems, LAMBDA i : i.target = d.target),
                      settings[d.serverField]) >>
           \o (IF settledOf = << >> THEN << >>
               ELSE << settledOf[1],
                       IF settledOf[1].resolved
                       THEN StepUpdate(d.target, "success", settledOf[1].value, Undefined)
                       ELSE StepUpdate(d.target, "error", Undefined,
                                       IF settledOf[1].value.isError
                                       THEN settledOf[1].value.message
                                       ELSE settledOf[1].value.string) >>)

RECURSIVE ExpectedUpTo(_)
ExpectedUpTo(k) == IF k = 0 THEN << >> ELSE ExpectedUpTo(k - 1) \o ExpectedOf(k)

\* The dispatch calls made so far.
DispatchesMade ==
  CASE pc \in {"idle", "rejected"} -> 0
    [] pc = "awaiting" -> idx
    [] OTHER -> idx - 1

ConnectCalled(c) ==
  /\ hook.calls[c] = "idle" /\ hook'.calls[c] = "awaiting"
  /\ hook'.status = "connecting"
  /\ hook'.error = << >>
  /\ hook'.venueId = hook.venueId
  /\ calls'[c].pc = "connecting"

\* The hook's connect call c resumed in this step with the venue the client
\* resolved with.
ConnectSucceeded(c) ==
  /\ hook.calls[c] = "awaiting" /\ hook'.calls[c] = "resolved"
  /\ calls[c].pc = "returned" /\ calls[c].ret # Null
  /\ hook'.status = "connected"
  /\ hook'.venueId = calls[c].ret
  /\ hook'.error = hook.error

\* The hook's connect call c resumed in this step in its catch block: an
\* Error is stored, the one caught or one made of the value caught.
ConnectFailed(c) ==
  /\ hook.calls[c] = "awaiting" /\ hook'.calls[c] = "resolved"
  /\ hook'.status = "error"
  /\ hook'.venueId = hook.venueId
  /\ Len(hook'.error) = 1
  /\ hook'.error[1].isError
  /\ IF calls[c].pc = "rejected"
     THEN hook'.error[1].message \in {ErrorMessage(e) : e \in ConnectThrown}
     ELSE calls[c].pc = "returned" /\ calls[c].ret = Null

\* The hook's disconnect was called in this step: the client's disconnect
\* ran, and the three states were reset.
DisconnectCalled ==
  /\ hook'.calls = hook.calls
  /\ hook'.status = "disconnected"
  /\ hook'.venueId = Null
  /\ hook'.error = << >>
  /\ Disconnected'

\* C25: useVenue starts 'disconnected' with error and venueId null. Its
\* state changes only when connect is called ('connecting', error
\* cleared, in the call itself), when a connect call resumes ('connected'
\* with the venue id, or 'error' with an Error stored, a value that is not
\* an Error being wrapped), and when disconnect is called ('disconnected',
\* venueId and error null, the client disconnected); connect never rejects.
C25_HookTransitions ==
  /\ hook = IdleHook
  /\ [][/\ hook' # hook =>
             \/ \E c \in Calls : ConnectCalled(c)
             \/ \E c \in Calls : ConnectSucceeded(c)
             \/ \E c \in Calls : ConnectFailed(c)
             \/ DisconnectCalled
        /\ \A c \in Calls : hook'.calls[c] # "rejected"
        /\ hook'.status \in {"disconnected", "connecting", "connected", "error"}
       ]_vars

\* A connect failed with a value that is not an Error, and the next one
\* succeeded: the status is 'connected' and the error of the first, an
\* Error with the value as message until the second call cleared it, is
\* gone.
C25_Witness ==
  \E a \in Calls : \E b \in Calls \ {a} :
    /\ calls[a].pc = "rejected" /\ hook.calls[a] = "resolved"
    /\ hook.calls[b] = "resolved"
    /\ hook.status = "connected"
    /\ hook.venueId = "venue-1"
    /\ hook.error = << >>

\* ------------------------------------------------------------------------
\* Properties of the timers of useHealthChecks.

\* C27: at most one check round is scheduled and not yet started: the
\* timer of Effect 1 and the debounce timer of Effect 2 are never both
\* pending with a round to run.
C27_OnePendingRound ==
  ~(effectTimer.kind = "run" /\ debounceRef.kind = "run")

\* C28: the render in which isConnected becomes true starts no round (no
\* probe is issued, the health map is as it was) and leaves a timer
\* pending that will run a round over the current configuration; while the
\* hook stays connected that timer stays pending, for the current
\* configuration, until it fires; and when it fires, one probe is issued
\* per checkable integration, with the URL configured for it.
C28_ConnectSchedulesRound ==
  [][/\ (~isConnected /\ isConnected') =>
          /\ pings' = pings
          /\ health' = health
          /\ effectTimer'.kind = "run"
          /\ effectTimer'.settings = settings
     /\ (effectTimer.kind = "run" /\ isConnected') =>
          \/ /\ effectTimer'.kind = "run"
             /\ effectTimer'.settings = settings'
          \/ /\ effectTimer'.kind = "none"
             /\ settings' = settings
             /\ effectTimer.settings = settings
             /\ pings' = pings (+) SetToBag(ProbesOf(settings))
             /\ \A q \in ProbesOf(settings) :
                  /\ q.url = settings[q.serverKey]
                  /\ \E k \in DOMAIN INTEGRATIONS :
                       INTEGRATIONS[k].serverKey = q.serverKey
             /\ \A k \in DOMAIN INTEGRATIONS :
                  (/\ ~INTEGRATIONS[k].hidden
                   /\ settings[INTEGRATIONS[k].serverKey] # "") =>
                    \E q \in ProbesOf(settings) :
                      q.serverKey = INTEGRATIONS[k].serverKey
    ]_vars

\* The hook was disconnected (its health map, which had entries, was
\* cleared) and connected again; the round of Effect 1 has run over two
\* integrations and no probe has settled; the debounce timer of the same
\* render is still pending.
C28_Witness ==
  /\ isConnected
  /\ clearedEntries
  /\ effectTimer.kind = "none"
  /\ debounceRef.kind = "run"
  /\ rechecks = 0
  /\ Cardinality(ProbesOf(settings)) = 2
  /\ pings = SetToBag(ProbesOf(settings))
  /\ \A q \in ProbesOf(settings) : health[q.serverKey] = "checking"

\* ------------------------------------------------------------------------
\* Properties of the grouping of executeActions.

\* The positions of the batch whose item is at some position of g.
PositionsIn(g) ==
  {k \in DOMAIN actionItems : \E n \in DOMAIN g : g[n] = actionItems[k]}

\* g is the items of the batch whose target is t, each once, in batch order
\* (the items of a batch differ in their description, which is their
\* position).
GroupOf(g, t) ==
  /\ \A n \in DOMAIN g :
       /\ g[n].target = t
       /\ g[n].description \in DOMAIN actionItems
       /\ actionItems[g[n].description] = g[n]
  /\ \A n, m \in DOMAIN g : n < m => g[n].description < g[m].description
  /\ PositionsIn(g) = {k \in DOMAIN actionItems : actionItems[k].target = t}

StepDefOf(id) == CHOOSE k \in DOMAIN STEP_DEFS : STEP_DEFS[k].id = id

\* The step updates of this execution for target id that React has
\* applied, in order.
AppliedUpdatesOf(id) ==
  SelectSeq(SubSeq(QueuedUpdates, 1, app.applied),
            LAMBDA u : u.kind = "update" /\ u.id = id)

\* C31: once React has applied the first update of an execution, the step
\* set has one row per execution target whose server field is non-empty in
\* the settings, in the order of STEP_DEFS, and each row shows the last
\* update of this execution for its target, or 'pending' with no result and
\* no error when there was none yet: nothing of an earlier execution is
\* left, and an update for a target without a row changes nothing.
C31_FreshStepSet ==
  LET steps == app.executionState.steps
  IN  app.applied >= 1 =>
        /\ \A k \in DOMAIN steps :
             /\ \E j \in DOMAIN STEP_DEFS : STEP_DEFS[j].id = steps[k].id
             /\ settings[STEP_DEFS[StepDefOf(steps[k].id)].serverField] # ""
        /\ \A j \in DOMAIN STEP_DEFS :
             settings[STEP_DEFS[j].serverField] # "" =>
               \E k \in DOMAIN steps : steps[k].id = STEP_DEFS[j].id
        /\ \A k, l \in DOMAIN steps :
             k < l => StepDefOf(steps[k].id) < StepDefOf(steps[l].id)
        /\ \A k \in DOMAIN steps :
             LET ups == AppliedUpdatesOf(steps[k].id)
             IN  IF ups = << >>
                 THEN /\ steps[k].status = "pending"
                      /\ steps[k].result = Undefined
                      /\ steps[k].error = Undefined
                 ELSE /\ steps[k].status = ups[Len(ups)].status
                      /\ steps[k].result = ups[Len(ups)].result
                      /\ steps[k].error = ups[Len(ups)].error

\* A second execution on a connected client, after the first one ended with
\* every row terminal: its first row is running and its second row is
\* pending again, and an update for a target without a row was applied.
C31_Witness ==
  LET steps == app.executionState.steps
  IN  /\ app.again
      /\ venue # Null
      /\ app.pc = "calling"
      /\ app.applied >= 2
      /\ Len(steps) = 2
      /\ steps[1].status = "running"
      /\ steps[2].status = "pending"
      /\ \E n \in 1..app.applied :
           /\ QueuedUpdates[n].kind = "update"
           /\ \A k \in DOMAIN steps : steps[k].id # QueuedUpdates[n].id

\* ------------------------------------------------------------------------
\* Properties of useVenue over the client's connection.

C33_MissingAssetRejects ==
  [][(venue # Null /\ op.pc # "awaiting" /\ op' # op
        /\ op'.name = "fetchTranscript") =>
       \E source \in TranscriptSources :
         LET assetName == FETCH_ASSET_NAMES[source]
         IN  IF assetName \notin DOMAIN assetIdMap
             THEN /\ op'.pc = "rejected"
                  /\ op'.settled[1].isError
                  /\ Includes(op'.settled[1].message, assetName)
                  /\ op'.remote = << >>
             ELSE /\ op'.pc = "awaiting"
                  /\ op'.remote[1].method = "run"
                  /\ op'.remote[1].operation = assetIdMap[assetName]
    ]_vars

\* On a connected client whose map holds the fetch operation of another
\* source, fetchTranscript('granola', ...) rejected naming
\* pm:fetchGranolaNote, with no remote call.
C33_Witness ==
  /\ venue # Null
  /\ DOMAIN assetIdMap # {}
  /\ "pm:fetchGranolaNote" \notin DOMAIN assetIdMap
  /\ op.name = "fetchTranscript"
  /\ op.pc = "rejected"
  /\ op.settled[1] = AssetNotFoundError("pm:fetchGranolaNote")
  /\ op.remote = << >>

\* ------------------------------------------------------------------------
\* Properties of connect and disconnect that overlap.

\* No connect() call is in flight.
NoneInFlight == \A c \in Calls : calls[c].pc \in {"idle", "returned", "rejected"}

\* C35: once every connect() call has finished, whatever disconnect() calls
\* were made meanwhile, the deployed flag is set only if the client holds a
\* venue (so that a connect() on a client without a venue runs the
\* deployment pass and builds the map).
C35_ConsistentAfterOverlap ==
  NoneInFlight => (assetsDeployed => venue # Null)

\* C36: while the hook reports 'disconnected', a step that is not a call of
\* its connect leaves the status 'disconnected' and venueId null, the
\* settling of a connect() that was in flight included.
C36_StaysDisconnected ==
  [][hook.status = "disconnected" =>
       \/ hook'.status = "disconnected" /\ hook'.venueId = Null
       \/ \E c \in Calls : hook.calls[c] = "idle" /\ hook'.calls[c] = "awaiting"
    ]_vars

\* C34: while the client holds a venue, every identifier in the asset map
\* is the one that venue reports for the operation.
C34_MapOfCurrentVenue ==
  venue # Null =>
    \A n \in DOMAIN assetIdMap : assetIdMap[n] = AssetIdAt(venue, n)

\* ------------------------------------------------------------------------
\* Properties of useHealthChecks around a disconnection.

\* C40: while isConnected is false no round is scheduled, neither on the
\* timer of Effect 1 nor on the debounce timer (a round scheduled before
\* the disconnection was cancelled, and a configuration change while
\* disconnected schedules none), and no step taken while disconnected
\* issues a probe.
C40_NoRoundWhileDisconnected ==
  /\ [](~isConnected => (effectTimer.kind # "run" /\ debounceRef.kind # "run"))
  /\ [][~isConnected => ~RoundStarted]_vars

\* isConnected turned false while a round was scheduled, the clearing has
\* run, and with a server configured nothing is pending and no probe is in
\* flight.
C40_Witness ==
  /\ ~isConnected
  /\ cancelled
  /\ ProbesOf(settings) # {}
  /\ effectTimer.kind = "none"
  /\ debounceRef.kind = "none"
  /\ pings = EmptyBag
  /\ health = EmptyHealth

\* ------------------------------------------------------------------------
\* Properties of rounds of useHealthChecks that overlap.

\* Probe p settles in this step.
Settles(p) == BagIn(p, pings) /\ pings' = pings (-) SetToBag({p})

\* C37: a probe of a URL that is no longer the configured one (a probe of
\* an earlier round) that settles while the probe of a newer round, for the
\* same key and the configured URL, is in flight leaves the entry of that
\* key as the newer round set it.
C37_LateResultIgnored ==
  [][\A p \in BagToSet(pings) :
       (/\ Settles(p)
        /\ p.url # settings[p.serverKey]
        /\ \E q \in BagToSet(pings') :
             q.serverKey = p.serverKey /\ q.url = settings[q.serverKey]) =>
         health'[p.serverKey] = health[p.serverKey]
    ]_vars

\* C38: with requests that settle, an entry that is 'checking' is later
\* 'ok' or 'unreachable' or gone from the map.
C38_CheckingEventuallySettles ==
  \A k \in EditedKeys :
    (k \in DOMAIN health /\ health[k] = "checking") ~>
      (k \notin DOMAIN health \/ health[k] \in {"ok", "unreachable"})

\* Every entry of a connected monitor has left 'checking' and no probe is
\* in flight.
C38_Witness ==
  /\ isConnected
  /\ DOMAIN health # {}
  /\ \A k \in DOMAIN health : health[k] \in {"ok", "unreachable"}
  /\ pings = EmptyBag

\* ------------------------------------------------------------------------
\* Properties of executeActions on a client that is disconnected meanwhile.

\* disconnect() was called after executeActions had started its work: only
\* disconnect() resets assetsDeployed, and a client that was never connected
\* makes executeActions reject before any event.
DisconnectedDuringRun == ~assetsDeployed /\ events # << >>

\* The remote calls issued so far.
RunCalls == SelectSeq(events, LAMBDA ev : ev.kind = "run")

\* C39: once disconnect() was called while executeActions awaited a remote
\* call, executeActions does not reject and is never stuck before it
\* resolves; no target has more than one terminal update and, when it has
\* resolved, each of the execution targets has exactly one; the disconnect
\* itself adds no event, and no remote call is issued after it.
C39_DisconnectDuringExecution ==
  /\ [](DisconnectedDuringRun =>
          /\ pc # "rejected" /\ rejection = Undefined
          /\ pc # "resolved" =>
                ENABLED (Continue \/ (\E r \in Results : RunResolves(r)))
          /\ \A id \in ExecutionIds : TerminalCount(id) <= 1
          /\ pc = "resolved" =>
                /\ \A id \in ExecutionIds : TerminalCount(id) = 1
                /\ Len(Terminals) = Cardinality(ExecutionIds))
  /\ [][(assetsDeployed /\ ~assetsDeployed') => events' = events]_vars
  /\ [][DisconnectedDuringRun => RunCalls' = RunCalls]_vars

\* executeActions has resolved after a disconnect during its first remote
\* call, and a later target with a server and items was skipped.
C39_Witness ==
  /\ DisconnectedDuringRun
  /\ pc = "resolved"
  /\ Len(RunCalls) = 1
  /\ \E k \in DOMAIN DISPATCHES :
       /\ ServerSet(k) /\ HasItems(k)
       /\ EventsOf(DISPATCHES[k].target) = << Skipped(DISPATCHES[k].target) >>

====
